---- MODULE Spec2Model ----
(***************************************************************************)
(* Verification model of the DEFCHR tool core: the PCG character store     *)
(* (PCGData), the raw binary codec (BinFormat), the BASIC program codec    *)
(* (BasFormat) and the edit-buffer transforms (EditBufferTransform).       *)
(*                                                                         *)
(* Byte arrays (Uint8Array, number[]) are sequences; the code's zero-based *)
(* index i is position i+1 of the sequence (operator At).  A read past the *)
(* end of a typed array yields the value Undefined.                        *)
(***************************************************************************)
EXTENDS Integers, Sequences, FiniteSets, TLC

VARIABLES
  pcgData,     \* PCGData.data of the definition store: code -> 24 bytes
  editBuffer,  \* PCGData.data of the edit buffer
  editorState, \* EditorState: editMode, cursorX, cursorY, currentColor
  fresh,       \* a second, newly constructed PCGData a file is loaded into
  prev,        \* the store operated on, as it was before the last operation
  last,        \* the last operation: its name, arguments and outcome
  file,        \* the byte array handed to, or produced by, the last operation
  saved,       \* where `file` comes from: the save call and the store it read
  steps,       \* number of editing operations performed so far
  loads,       \* number of load operations performed so far
  run,         \* the current run of identical transforms of the edit buffer
  pendingLoad, \* the image loads whose decoding has not finished yet
  storage,     \* localStorage: the state written by LocalStorageService.save, if any
  saveTimeout  \* LocalStorageService.saveTimeout: the state the pending timer will save

\* the variables of the asynchronous parts: image decoding and the autosave timer
async == <<pendingLoad, storage, saveTimeout>>

vars == <<pcgData, editBuffer, editorState, fresh, prev, last, file, saved, steps, loads, run,
          async>>

(***************************************************************************)
(* Program constants (core/types.ts).                                      *)
(***************************************************************************)
PCG_BYTES_PER_PLANE == 8
PCG_PLANES == 3
PCG_BYTES_PER_CHAR == PCG_BYTES_PER_PLANE * PCG_PLANES
PCG_TOTAL_CHARS == 256
PCG_TOTAL_BYTES == PCG_BYTES_PER_CHAR * PCG_TOTAL_CHARS

Byte == 0..255
Undefined == -1

\* a function on 1..n as a sequence value
AsSeq(f) == SubSeq(f, 1, Len(f))

\* data[i] of a typed array: undefined past the end
At(a, i) == IF i >= 0 /\ i < Len(a) THEN a[i + 1] ELSE Undefined

\* (v & mask) !== 0 for a one-bit mask
TestBit(v, mask) == (v \div mask) % 2 = 1
\* v | mask and v & ~mask for a one-bit mask, on a byte
OrMask(v, mask) == IF TestBit(v, mask) THEN v ELSE v + mask
AndNotMask(v, mask) == IF TestBit(v, mask) THEN v - mask ELSE v
\* 0x80 >> (x & 0x07)
PixelMask(x) == 2 ^ (7 - (x % 8))

ZeroChar == AsSeq([j \in 1..PCG_BYTES_PER_CHAR |-> 0])
\* new PCGData(): the buffer is zero-filled
NewPCGData == [code \in 0..(PCG_TOTAL_CHARS - 1) |-> ZeroChar]

(***************************************************************************)
(* PCGData accessors.                                                      *)
(***************************************************************************)
getCharacter(data, code) == data[code % 256]

\* this.data.set(bytes, offset): Len(bytes) bytes land at the flat offset of the character
WriteCharacter(data, code, bytes) ==
  IF Len(bytes) = PCG_BYTES_PER_CHAR
  THEN [data EXCEPT ![code % 256] = bytes]
  ELSE LET offset == (code % 256) * PCG_BYTES_PER_CHAR
       IN [c \in 0..(PCG_TOTAL_CHARS - 1) |->
             AsSeq([j \in 1..PCG_BYTES_PER_CHAR |->
                LET k == c * PCG_BYTES_PER_CHAR + (j - 1) - offset
                IN IF k >= 0 /\ k < Len(bytes) THEN bytes[k + 1] ELSE data[c][j]])]

\* mutant: only a payload that is too short is rejected
setCharacterThrows_OnlyShort(bytes) == Len(bytes) < PCG_BYTES_PER_CHAR

\* setCharacter throws unless the payload has 24 bytes
setCharacterThrows(bytes) == Len(bytes) # PCG_BYTES_PER_CHAR

setCharacter(data, code, bytes) ==
  IF setCharacterThrows(bytes) THEN data ELSE WriteCharacter(data, code, bytes)

getPixel(data, charCode, x, y) ==
  LET ch == data[charCode % 256]
      mask == PixelMask(x)
      row == y % 8
      b == IF TestBit(At(ch, row), mask) THEN 1 ELSE 0
      r == IF TestBit(At(ch, PCG_BYTES_PER_PLANE + row), mask) THEN 1 ELSE 0
      g == IF TestBit(At(ch, PCG_BYTES_PER_PLANE * 2 + row), mask) THEN 1 ELSE 0
  IN b + 2 * r + 4 * g

\* mutant: the mask is or-ed in but never cleared
PlaneByte_NeverClears(v, bit, mask) == IF bit THEN OrMask(v, mask) ELSE v

\* one plane's byte after setPixel: |= mask when the colour bit is set, &= ~mask otherwise
PlaneByte(v, bit, mask) == IF bit THEN OrMask(v, mask) ELSE AndNotMask(v, mask)

setPixel(data, charCode, x, y, color) ==
  LET code == charCode % 256
      mask == PixelMask(x)
      row == y % 8
      b == color % 2 = 1
      r == (color \div 2) % 2 = 1
      g == (color \div 4) % 2 = 1
      ch == data[code]
  IN [data EXCEPT ![code] =
        [ch EXCEPT ![row + 1] = PlaneByte(ch[row + 1], b, mask),
                   ![PCG_BYTES_PER_PLANE + row + 1] =
                       PlaneByte(ch[PCG_BYTES_PER_PLANE + row + 1], r, mask),
                   ![PCG_BYTES_PER_PLANE * 2 + row + 1] =
                       PlaneByte(ch[PCG_BYTES_PER_PLANE * 2 + row + 1], g, mask)]]

\* the flat Uint8Array view of the buffer
FlatAt(data, offset) ==
  IF offset >= 0 /\ offset < PCG_TOTAL_BYTES
  THEN data[offset \div PCG_BYTES_PER_CHAR][(offset % PCG_BYTES_PER_CHAR) + 1]
  ELSE Undefined

PlaneRowOffset(charCode, plane, row) ==
  (charCode % 256) * PCG_BYTES_PER_CHAR + (plane % 4) * PCG_BYTES_PER_PLANE + (row % 8)

getPlaneRow(data, charCode, plane, row) == FlatAt(data, PlaneRowOffset(charCode, plane, row))

\* a store past the end of a typed array is dropped
setPlaneRow(data, charCode, plane, row, value) ==
  LET offset == PlaneRowOffset(charCode, plane, row)
  IN IF offset < PCG_TOTAL_BYTES
     THEN [data EXCEPT ![offset \div PCG_BYTES_PER_CHAR][(offset % PCG_BYTES_PER_CHAR) + 1] =
             value % 256]
     ELSE data

\* getAllData(): a copy of the 6144 bytes
getAllData(data) ==
  AsSeq([i \in 1..PCG_TOTAL_BYTES |->
           data[(i - 1) \div PCG_BYTES_PER_CHAR][((i - 1) % PCG_BYTES_PER_CHAR) + 1]])

setAllDataThrows(bytes) == Len(bytes) # PCG_TOTAL_BYTES

setAllData(data, bytes) ==
  IF setAllDataThrows(bytes) THEN data
  ELSE [code \in 0..(PCG_TOTAL_CHARS - 1) |->
          SubSeq(bytes, code * PCG_BYTES_PER_CHAR + 1, (code + 1) * PCG_BYTES_PER_CHAR)]

(***************************************************************************)
(* BinFormat: raw binary save / load (normal and x3 row-interleaved).      *)
(***************************************************************************)
BYTES_PER_CHAR == 24

\* mutant: the x3 writer emits the planes one after the other, like the normal mode
X3Encode_PlaneMajor(charData) == charData

\* x3mode save of one character: data[offset++] = charData[row], charData[8+row], charData[16+row]
X3Encode(charData) ==
  AsSeq([j \in 1..BYTES_PER_CHAR |-> charData[((j - 1) % 3) * 8 + ((j - 1) \div 3) + 1]])

\* count <= 0 throws 'Invalid range'
BinSaveThrows(start, end) == end - start + 1 <= 0

\* the bytes of the Blob BinFormat.save returns
BinSaveData(data, start, end, x3mode) ==
  LET count == end - start + 1
      chars == [i \in 0..(count - 1) |->
                  IF x3mode THEN X3Encode(getCharacter(data, start + i))
                  ELSE getCharacter(data, start + i)]
  IN AsSeq([k \in 1..(count * BYTES_PER_CHAR) |->
              chars[(k - 1) \div BYTES_PER_CHAR][((k - 1) % BYTES_PER_CHAR) + 1]])

\* a value stored into a Uint8Array element: undefined becomes 0
ToUint8(v) == IF v = Undefined THEN 0 ELSE v % 256

\* mutant: the R and G bytes of a row are read in the wrong order
X3Decode_SwapRG(data, srcOffset) ==
  AsSeq([j \in 1..BYTES_PER_CHAR |->
     LET plane == (j - 1) \div 8
         swapped == IF plane = 0 THEN 0 ELSE 3 - plane
     IN ToUint8(At(data, srcOffset + ((j - 1) % 8) * 3 + swapped))])

\* x3mode load of one character: charData[8*p + row] = data[srcOffset + row*3 + p]
X3Decode(data, srcOffset) ==
  AsSeq([j \in 1..BYTES_PER_CHAR |->
     ToUint8(At(data, srcOffset + ((j - 1) % 8) * 3 + ((j - 1) \div 8)))])

\* normal load of one character: data.slice(i*24, (i+1)*24)
PlainDecode(data, i) == SubSeq(data, i * BYTES_PER_CHAR + 1, (i + 1) * BYTES_PER_CHAR)

BinCharCount(data) == Len(data) \div BYTES_PER_CHAR

\* mutant: the 256-character overflow check is missing
BinLoadThrows_NoOverflowCheck(data, start) == BinCharCount(data) = 0

\* 'File too small' or 'Data exceeds 256 chars', both raised before the first write
BinLoadThrows(data, start) ==
  BinCharCount(data) = 0 \/ start + BinCharCount(data) > 256

\* charData of iteration i of the loop of BinFormat.load
BinCharData(data, x3mode, i) ==
  IF x3mode THEN X3Decode(data, i * BYTES_PER_CHAR) ELSE PlainDecode(data, i)

\* the passes lo..hi-1 of the loop, the first half before the second
RECURSIVE BinLoadRange(_, _, _, _, _, _)
BinLoadRange(pcg, data, start, x3mode, lo, hi) ==
  IF hi <= lo THEN pcg
  ELSE IF hi = lo + 1 THEN setCharacter(pcg, start + lo, BinCharData(data, x3mode, lo))
  ELSE LET mid == (lo + hi) \div 2
           first == BinLoadRange(pcg, data, start, x3mode, lo, mid)
       IN IF DOMAIN first = {} THEN first
          ELSE BinLoadRange(first, data, start, x3mode, mid, hi)

\* for (let i = 0; i < charCount; i++) pcgData.setCharacter(start + i, charData)
BinLoadLoop(data, pcg, start, x3mode, charCount) ==
  BinLoadRange(pcg, data, start, x3mode, 0, charCount)

\* BinFormat.load: the store afterwards, the value returned, whether it threw
BinLoad(data, pcg, start, x3mode) ==
  IF BinLoadThrows(data, start)
  THEN [threw |-> TRUE, ret |-> 0, store |-> pcg]
  ELSE [threw |-> FALSE, ret |-> BinCharCount(data),
        store |-> BinLoadLoop(data, pcg, start, x3mode, BinCharCount(data))]

(***************************************************************************)
(* Input domains and bounds.                                               *)
(***************************************************************************)
MaxOps == 2

\* a deterministic byte pattern standing for an arbitrary payload
PatternByte(seed, i) == (seed * 89 + i * 37 + (i \div 8) * 5) % 256
Pattern(seed, len) == AsSeq([i \in 1..len |-> PatternByte(seed, i - 1)])

StoreCodes == {65, 255}
PixelCoords == {<<0, 0>>, <<7, 3>>}
PixelColors == {0, 2, 5, 7}
CharLengths == {PCG_BYTES_PER_CHAR - 1, PCG_BYTES_PER_CHAR, PCG_BYTES_PER_CHAR + 1}
AllLengths == {PCG_TOTAL_BYTES - 1, PCG_TOTAL_BYTES, PCG_TOTAL_BYTES + 1}
\* characters whose 64 pixels are compared one by one
ProbeCodes == {0, 64, 65, 66, 254, 255}

\* new EditorState(); currentCharCode, editChrCode and gridVisible are read by no operation
\* modelled here and are left out
NewEditorState ==
  [editMode |-> "ALL", cursorX |-> 0, cursorY |-> 0, currentColor |-> 7,
   lastDirection |-> "RIGHT"]
NoFile == [op |-> "none"]
NoRun == [kind |-> "none", n |-> 0]

(***************************************************************************)
(* SpecStore: the PCGData operations applied to one store.                 *)
(***************************************************************************)
\* localStorage without saved data; saveTimeout === null
NoStorage == [present |-> FALSE]
NoTimeout == [pending |-> FALSE]

InitStore ==
  /\ pcgData = NewPCGData
  /\ editBuffer = NewPCGData
  /\ editorState = NewEditorState
  /\ fresh = NewPCGData
  /\ prev = NewPCGData
  /\ last = [op |-> "new"]
  /\ file = <<>>
  /\ saved = NoFile
  /\ steps = 0
  /\ loads = 0
  /\ run = NoRun
  /\ pendingLoad = {}
  /\ storage = NoStorage
  /\ saveTimeout = NoTimeout

SetPixelOp ==
  \E code \in StoreCodes, xy \in PixelCoords, color \in PixelColors :
    /\ steps < MaxOps
    /\ prev' = pcgData
    /\ pcgData' = setPixel(pcgData, code, xy[1], xy[2], color)
    /\ last' = [op |-> "setPixel", code |-> code, x |-> xy[1], y |-> xy[2], color |-> color]
    /\ file' = <<>>
    /\ steps' = steps + 1
    /\ UNCHANGED <<editBuffer, editorState, fresh, saved, loads, run, async>>

SetCharacterOp ==
  \E code \in StoreCodes, len \in CharLengths :
    LET bytes == Pattern(code, len)
    IN /\ steps < MaxOps
       /\ prev' = pcgData
       /\ pcgData' = setCharacter(pcgData, code, bytes)
       /\ last' = [op |-> "setCharacter", code |-> code, threw |-> setCharacterThrows(bytes)]
       /\ file' = bytes
       /\ steps' = steps + 1
       /\ UNCHANGED <<editBuffer, editorState, fresh, saved, loads, run, async>>

SetAllDataOp ==
  \E len \in AllLengths :
    LET bytes == Pattern(len, len)
    IN /\ steps < MaxOps
       /\ prev' = pcgData
       /\ pcgData' = setAllData(pcgData, bytes)
       /\ last' = [op |-> "setAllData", threw |-> setAllDataThrows(bytes)]
       /\ file' = bytes
       /\ steps' = steps + 1
       /\ UNCHANGED <<editBuffer, editorState, fresh, saved, loads, run, async>>

SetPlaneRowOp ==
  \E code \in StoreCodes, plane \in {0, 3} :
    /\ steps < MaxOps
    /\ prev' = pcgData
    /\ pcgData' = setPlaneRow(pcgData, code, plane, 7, 255)
    /\ last' = [op |-> "setPlaneRow", code |-> code, plane |-> plane, row |-> 7, value |-> 255]
    /\ file' = <<>>
    /\ steps' = steps + 1
    /\ UNCHANGED <<editBuffer, editorState, fresh, saved, loads, run, async>>

ClearOp ==
  /\ steps < MaxOps
  /\ prev' = pcgData
  /\ pcgData' = NewPCGData
  /\ last' = [op |-> "clear"]
  /\ file' = <<>>
  /\ steps' = steps + 1
  /\ UNCHANGED <<editBuffer, editorState, fresh, saved, loads, run, async>>

NextStore == SetPixelOp \/ SetCharacterOp \/ SetAllDataOp \/ SetPlaneRowOp \/ ClearOp

SpecStore == InitStore /\ [][NextStore]_vars

(***************************************************************************)
(* C5: after setPixel(code,x,y,c) with c in 0..7, getPixel(code,x,y)       *)
(* returns c; no other character changes a byte, and every other pixel of  *)
(* the written character and of the probed characters reads as before;     *)
(* getPixel returns a value in 0..7.                                       *)
(***************************************************************************)
C5_SetPixelGetPixel ==
  /\ \A ch \in ProbeCodes, x \in 0..7, y \in 0..7 : getPixel(pcgData, ch, x, y) \in 0..7
  /\ last.op = "setPixel" =>
       /\ getPixel(pcgData, last.code, last.x, last.y) = last.color
       /\ \A ch \in 0..255 : ch # last.code % 256 => pcgData[ch] = prev[ch]
       /\ \A ch \in ProbeCodes \cup {last.code % 256}, x \in 0..7, y \in 0..7 :
            <<ch, x, y>> # <<last.code % 256, last.x % 8, last.y % 8>> =>
              getPixel(pcgData, ch, x, y) = getPixel(prev, ch, x, y)

\* a pixel is written over a character that earlier operations filled, and its colour changes
C5_Witness ==
  /\ last.op = "setPixel"
  /\ prev[last.code] # ZeroChar
  /\ getPixel(prev, last.code, last.x, last.y) # last.color
  /\ last.color \notin {0, 7}

\* Scenario A: a zero character, colour 7
C5_WitnessScenarioA ==
  /\ last.op = "setPixel"
  /\ prev[last.code] = ZeroChar
  /\ last.color = 7

(***************************************************************************)
(* C6: setCharacter with a payload of length # 24 and setAllData with a    *)
(* payload of length # 6144 throw and leave every byte of the store as it  *)
(* was; with the right length they succeed and getCharacter / getAllData   *)
(* return exactly the bytes written.                                       *)
(***************************************************************************)
C6_PayloadLength ==
  /\ last.op = "setCharacter" =>
       /\ last.threw <=> Len(file) # 24
       /\ last.threw => pcgData = prev
       /\ ~last.threw =>
            /\ getCharacter(pcgData, last.code) = file
            /\ \A ch \in 0..255 : ch # last.code => pcgData[ch] = prev[ch]
  /\ last.op = "setAllData" =>
       /\ last.threw <=> Len(file) # 6144
       /\ last.threw => pcgData = prev
       /\ ~last.threw => getAllData(pcgData) = file

\* both rejections happen on a store that holds data, and both successes happen
C6_Witness ==
  /\ last.op = "setCharacter"
  /\ last.threw
  /\ Len(file) = 25
  /\ prev # NewPCGData

C6_WitnessAllData ==
  /\ last.op = "setAllData"
  /\ ~last.threw
  /\ prev # NewPCGData
  /\ pcgData # prev

(***************************************************************************)
(* SpecBin: a store is edited, saved as raw binary (or a file is picked),  *)
(* and the file is loaded into the store or into a new store.              *)
(***************************************************************************)
MaxLoads == 1

RangeCodes == {0, 1, 255}
EditCodes == {0, 255}
PickLengths == {0, 23, 25, 49, 72}

BinEditOp ==
  \E code \in EditCodes :
    /\ steps < MaxOps
    /\ saved.op = "none"
    /\ prev' = pcgData
    /\ pcgData' = setCharacter(pcgData, code, Pattern(code + steps, PCG_BYTES_PER_CHAR))
    /\ last' = [op |-> "setCharacter", code |-> code, threw |-> FALSE]
    /\ steps' = steps + 1
    /\ UNCHANGED <<editBuffer, editorState, fresh, file, saved, loads, run, async>>

BinFillOp ==
  /\ steps < MaxOps
  /\ saved.op = "none"
  /\ prev' = pcgData
  /\ pcgData' = setAllData(pcgData, Pattern(3 + steps, PCG_TOTAL_BYTES))
  /\ last' = [op |-> "setAllData", threw |-> FALSE]
  /\ steps' = steps + 1
  /\ UNCHANGED <<editBuffer, editorState, fresh, file, saved, loads, run, async>>

BinSaveOp ==
  \E start \in RangeCodes, end \in RangeCodes, x3mode \in BOOLEAN :
    /\ loads = 0
    /\ saved.op = "none"
    /\ prev' = pcgData
    /\ last' = [op |-> "save", start |-> start, end |-> end, x3mode |-> x3mode,
                threw |-> BinSaveThrows(start, end)]
    /\ IF BinSaveThrows(start, end)
       THEN UNCHANGED <<file, saved>>
       ELSE /\ file' = BinSaveData(pcgData, start, end, x3mode)
            /\ saved' = [op |-> "save", start |-> start, end |-> end, x3mode |-> x3mode,
                         S |-> pcgData]
    /\ UNCHANGED <<pcgData, editBuffer, editorState, fresh, steps, loads, run, async>>

BinPickOp ==
  \E len \in PickLengths :
    /\ loads = 0
    /\ saved.op = "none"
    /\ prev' = pcgData
    /\ last' = [op |-> "pick"]
    /\ file' = Pattern(len, len)
    /\ saved' = [op |-> "pick"]
    /\ UNCHANGED <<pcgData, editBuffer, editorState, fresh, steps, loads, run, async>>

\* handleFileLoad: the file is loaded into the definition store
BinLoadOp ==
  \E start \in RangeCodes, x3mode \in BOOLEAN :
    LET r == BinLoad(file, pcgData, start, x3mode)
    IN /\ loads < MaxLoads
       /\ saved.op # "none"
       /\ prev' = pcgData
       /\ pcgData' = r.store
       /\ last' = [op |-> "load", target |-> "pcgData", start |-> start, x3mode |-> x3mode,
                   threw |-> r.threw, ret |-> r.ret]
       /\ loads' = loads + 1
       /\ UNCHANGED <<editBuffer, editorState, fresh, file, saved, steps, run, async>>

\* the file is loaded into a newly constructed store
BinLoadFreshOp ==
  \E start \in RangeCodes, x3mode \in BOOLEAN :
    LET r == BinLoad(file, NewPCGData, start, x3mode)
    IN /\ loads < MaxLoads
       /\ saved.op # "none"
       /\ prev' = NewPCGData
       /\ fresh' = r.store
       /\ last' = [op |-> "load", target |-> "fresh", start |-> start, x3mode |-> x3mode,
                   threw |-> r.threw, ret |-> r.ret]
       /\ loads' = loads + 1
       /\ UNCHANGED <<pcgData, editBuffer, editorState, file, saved, steps, run, async>>

NextBin == BinEditOp \/ BinFillOp \/ BinSaveOp \/ BinPickOp \/ BinLoadOp \/ BinLoadFreshOp

SpecBin == InitStore /\ [][NextBin]_vars

\* the store the last load wrote into
LoadTarget == IF last.target = "fresh" THEN fresh ELSE pcgData

\* position of plane p, row r of the i-th character of a raw file
BinIndex(i, p, r, x3mode) == i * 24 + (IF x3mode THEN r * 3 + p ELSE p * 8 + r)

(***************************************************************************)
(* C1: raw round trip.  Loading the bytes of save(S,start,end,interleaved) *)
(* into a new, all-zero store with the same start and flag returns         *)
(* end-start+1, makes every character of [start,end] equal to that of S,   *)
(* and leaves every other character all-zero.                              *)
(***************************************************************************)
C1_RawRoundTrip ==
  (/\ last.op = "load"
   /\ last.target = "fresh"
   /\ saved.op = "save"
   /\ saved.start = last.start
   /\ saved.x3mode = last.x3mode) =>
     /\ ~last.threw
     /\ last.ret = saved.end - saved.start + 1
     /\ \A c \in 0..255 :
          fresh[c] = IF c >= saved.start /\ c <= saved.end THEN saved.S[c] ELSE ZeroChar

\* an interleaved round trip of several characters of a store whose planes differ
C1_Witness ==
  /\ last.op = "load"
  /\ last.target = "fresh"
  /\ saved.op = "save"
  /\ saved.start = last.start
  /\ saved.x3mode = last.x3mode
  /\ last.x3mode
  /\ saved.end > saved.start
  /\ X3Encode(saved.S[saved.start]) # saved.S[saved.start]
  /\ \E c \in 0..255 : (c < saved.start \/ c > saved.end) /\ saved.S[c] # ZeroChar

(***************************************************************************)
(* C7: BinFormat.load validates before it writes.  With count =            *)
(* floor(len/24): if count = 0 or start+count > 256 it throws and the      *)
(* target store is unchanged; otherwise it returns count, writes exactly   *)
(* the characters start..start+count-1 from the first count*24 bytes and   *)
(* leaves the other characters as they were.                               *)
(***************************************************************************)
C7_BinLoadValidates ==
  last.op = "load" =>
    LET count == Len(file) \div 24
    IN IF count = 0 \/ last.start + count > 256
       THEN last.threw /\ LoadTarget = prev
       ELSE /\ ~last.threw
            /\ last.ret = count
            /\ \A c \in 0..255 :
                 IF c >= last.start /\ c < last.start + count
                 THEN \A p \in 0..2, r \in 0..7 :
                        getPlaneRow(LoadTarget, c, p, r) =
                          file[BinIndex(c - last.start, p, r, last.x3mode) + 1]
                 ELSE LoadTarget[c] = prev[c]

\* a load that overflows 256 characters is refused on a store that holds data
C7_Witness ==
  /\ last.op = "load"
  /\ last.target = "pcgData"
  /\ last.threw
  /\ Len(file) \div 24 > 0
  /\ prev # NewPCGData

\* a file with trailing bytes is loaded over a store that holds data
C7_WitnessTrailing ==
  /\ last.op = "load"
  /\ last.target = "pcgData"
  /\ ~last.threw
  /\ Len(file) % 24 # 0
  /\ prev # NewPCGData
  /\ pcgData # prev

(***************************************************************************)
(* C8: BinFormat.save throws when end-start+1 <= 0; otherwise the output   *)
(* is (end-start+1)*24 bytes without header, and byte getPlaneRow(start+i, *)
(* p,r) of the store is at index i*24+p*8+r (normal) or i*24+r*3+p         *)
(* (interleaved).                                                          *)
(***************************************************************************)
C8_BinSaveLayout ==
  last.op = "save" =>
    IF last.end - last.start + 1 <= 0
    THEN last.threw
    ELSE /\ ~last.threw
         /\ Len(file) = (last.end - last.start + 1) * 24
         /\ \A i \in 0..(last.end - last.start), p \in 0..2, r \in 0..7 :
              file[BinIndex(i, p, r, last.x3mode) + 1] = getPlaneRow(pcgData, last.start + i, p, r)

\* an interleaved save of several characters that differs from the plane-major bytes
C8_Witness ==
  /\ last.op = "save"
  /\ ~last.threw
  /\ last.x3mode
  /\ last.end > last.start
  /\ file # BinSaveData(pcgData, last.start, last.end, FALSE)

\* Scenario B and the refused range
C8_WitnessThrows ==
  /\ last.op = "save"
  /\ last.threw
  /\ pcgData # NewPCGData

(***************************************************************************)
(* EditAreaCalculator and EditBufferTransform: the 16x16 edit area and the *)
(* move / rotate / flip transforms of the edit buffer.                     *)
(***************************************************************************)
EditModes == {"SEPARATE", "VERTICAL", "HORIZONTAL", "ALL"}
RotationTypes == {"right", "left", "up", "down", "rot90", "rot180", "flipH", "flipV"}

getCursorCharPos(cursorX, cursorY) == [charX |-> cursorX \div 8, charY |-> cursorY \div 8]

\* mutant: the lower character of a vertical pair is taken from the next slot
getEditArea_VerticalNextSlot(editMode, charX, charY) ==
  CASE editMode = "SEPARATE" ->
         [startX |-> charX * 8, startY |-> charY * 8, width |-> 8, height |-> 8,
          charCodes |-> <<charX + charY * 16>>]
    [] editMode = "VERTICAL" ->
         [startX |-> charX * 8, startY |-> 0, width |-> 8, height |-> 16,
          charCodes |-> <<charX, charX + 1>>]
    [] editMode = "HORIZONTAL" ->
         [startX |-> 0, startY |-> charY * 8, width |-> 16, height |-> 8,
          charCodes |-> <<charY * 16, charY * 16 + 1>>]
    [] OTHER ->
         [startX |-> 0, startY |-> 0, width |-> 16, height |-> 16,
          charCodes |-> <<0, 1, 16, 17>>]

getEditArea(editMode, charX, charY) ==
  CASE editMode = "SEPARATE" ->
         [startX |-> charX * 8, startY |-> charY * 8, width |-> 8, height |-> 8,
          charCodes |-> <<charX + charY * 16>>]
    [] editMode = "VERTICAL" ->
         [startX |-> charX * 8, startY |-> 0, width |-> 8, height |-> 16,
          charCodes |-> <<charX, charX + 16>>]
    [] editMode = "HORIZONTAL" ->
         [startX |-> 0, startY |-> charY * 8, width |-> 16, height |-> 8,
          charCodes |-> <<charY * 16, charY * 16 + 1>>]
    [] OTHER ->
         [startX |-> 0, startY |-> 0, width |-> 16, height |-> 16,
          charCodes |-> <<0, 1, 16, 17>>]

\* mutant: the slot index counts one slot per row of characters whatever the width
AreaCharCode_OneSlotPerRow(area, x, y) ==
  LET charIdx == (x \div 8) + (y \div 8)
      v == At(area.charCodes, charIdx)
  IN IF v = Undefined \/ v = 0 THEN area.charCodes[1] ELSE v

\* charCodes[charIdx] || charCodes[0]: an absent entry and the code 0 both fall back
AreaCharCode(area, x, y) ==
  LET charIdx == (x \div 8) + (y \div 8) * (IF area.width > 8 THEN 2 ELSE 1)
      v == At(area.charCodes, charIdx)
  IN IF v = Undefined \/ v = 0 THEN area.charCodes[1] ELSE v

\* pixels[y][x] of the area
getAreaPixels(buf, area) ==
  [y \in 0..(area.height - 1) |->
     [x \in 0..(area.width - 1) |-> getPixel(buf, AreaCharCode(area, x, y), x % 8, y % 8)]]

\* mutant: the column that leaves the area does not come back on the other side
ShiftRightSource_NoWrap(x, width) == IF x + 1 < width THEN x + 1 ELSE x

\* 'right': result[y][x] = pixels[y][(x + 1) % width]
ShiftRightSource(x, width) == (x + 1) % width

\* mutant: 'down' reads the same source row as 'up'
applyTransformation_DownReadsBelow(pixels, width, height, type) ==
  CASE type = "right" ->
         [y \in 0..(height - 1) |-> [x \in 0..(width - 1) |-> pixels[y][ShiftRightSource(x, width)]]]
    [] type = "left" ->
         [y \in 0..(height - 1) |-> [x \in 0..(width - 1) |-> pixels[y][(x - 1 + width) % width]]]
    [] type = "up" ->
         [y \in 0..(height - 1) |-> [x \in 0..(width - 1) |-> pixels[(y + 1) % height][x]]]
    [] type = "down" ->
         [y \in 0..(height - 1) |-> [x \in 0..(width - 1) |-> pixels[(y + 1) % height][x]]]
    [] type = "rot90" ->
         [y \in 0..(width - 1) |-> [x \in 0..(height - 1) |-> pixels[x][width - 1 - y]]]
    [] type = "rot180" ->
         [y \in 0..(height - 1) |-> [x \in 0..(width - 1) |-> pixels[height - 1 - y][width - 1 - x]]]
    [] type = "flipH" ->
         [y \in 0..(height - 1) |-> [x \in 0..(width - 1) |-> pixels[height - 1 - y][x]]]
    [] type = "flipV" ->
         [y \in 0..(height - 1) |-> [x \in 0..(width - 1) |-> pixels[y][width - 1 - x]]]

applyTransformation(pixels, width, height, type) ==
  CASE type = "right" ->
         [y \in 0..(height - 1) |-> [x \in 0..(width - 1) |-> pixels[y][ShiftRightSource(x, width)]]]
    [] type = "left" ->
         [y \in 0..(height - 1) |-> [x \in 0..(width - 1) |-> pixels[y][(x - 1 + width) % width]]]
    [] type = "up" ->
         [y \in 0..(height - 1) |-> [x \in 0..(width - 1) |-> pixels[(y + 1) % height][x]]]
    [] type = "down" ->
         [y \in 0..(height - 1) |-> [x \in 0..(width - 1) |-> pixels[(y - 1 + height) % height][x]]]
    [] type = "rot90" ->
         [y \in 0..(width - 1) |-> [x \in 0..(height - 1) |-> pixels[x][width - 1 - y]]]
    [] type = "rot180" ->
         [y \in 0..(height - 1) |-> [x \in 0..(width - 1) |-> pixels[height - 1 - y][width - 1 - x]]]
    [] type = "flipH" ->
         [y \in 0..(height - 1) |-> [x \in 0..(width - 1) |-> pixels[height - 1 - y][x]]]
    [] type = "flipV" ->
         [y \in 0..(height - 1) |-> [x \in 0..(width - 1) |-> pixels[y][width - 1 - x]]]

\* the body of the loops of setAreaPixels for one (x, y)
SetAreaPixel(buf, area, pixels, x, y) ==
  setPixel(buf, AreaCharCode(area, x, y), x % 8, y % 8, pixels[y][x])

\* iterations lo..hi-1 of the loops of setAreaPixels, in row-major order (k = y*width + x);
\* the first half is carried out before the second half starts
RECURSIVE SetAreaRange(_, _, _, _, _)
SetAreaRange(buf, area, pixels, lo, hi) ==
  IF hi <= lo THEN buf
  ELSE IF hi = lo + 1 THEN SetAreaPixel(buf, area, pixels, lo % area.width, lo \div area.width)
  ELSE LET mid == (lo + hi) \div 2
           first == SetAreaRange(buf, area, pixels, lo, mid)
       IN IF DOMAIN first = {} THEN first ELSE SetAreaRange(first, area, pixels, mid, hi)

setAreaPixels(buf, area, pixels) == SetAreaRange(buf, area, pixels, 0, area.width * area.height)

\* mutant: only the 90 degree rotation is refused in the two-character modes
applyRejects_OnlyRot90(editMode, transformType) ==
  transformType = "rot90" /\ editMode \in {"VERTICAL", "HORIZONTAL"}

\* apply returns false before it reads or writes the buffer
applyRejects(editMode, transformType) ==
  transformType \in {"rot90", "rot180"} /\ editMode \in {"VERTICAL", "HORIZONTAL"}

\* the edit buffer after EditBufferTransform.apply
applyStore(buf, editMode, cursorX, cursorY, transformType) ==
  IF applyRejects(editMode, transformType) THEN buf
  ELSE LET pos == getCursorCharPos(cursorX, cursorY)
           area == getEditArea(editMode, pos.charX, pos.charY)
           pixels == getAreaPixels(buf, area)
           transformed == applyTransformation(pixels, area.width, area.height, transformType)
       IN setAreaPixels(buf, area, transformed)

\* the area EditBufferTransform.apply resolves for a mode and a cursor
CursorArea(editMode, cursorX, cursorY) ==
  getEditArea(editMode, getCursorCharPos(cursorX, cursorY).charX,
              getCursorCharPos(cursorX, cursorY).charY)

\* EditorState.cycleEditMode
cycleEditMode(editMode) ==
  CASE editMode = "SEPARATE" -> "VERTICAL"
    [] editMode = "VERTICAL" -> "HORIZONTAL"
    [] editMode = "HORIZONTAL" -> "ALL"
    [] OTHER -> "SEPARATE"

\* Math.max(0, Math.min(15, v))
ClampCursor(v) == IF v < 0 THEN 0 ELSE IF v > 15 THEN 15 ELSE v

(***************************************************************************)
(* SpecXform: the editor state is restored, drawn on or its mode cycled,   *)
(* and then one transform is applied repeatedly.                           *)
(***************************************************************************)
MaxEdits == 2
MaxRun == 16
MaxRepeat == 2

\* the characters of the edit buffer the editor draws on
BufferCodes == {0, 1, 16, 17}
SavedSeeds == {1}
SavedCursors == {<<0, 0>>, <<15, 3>>, <<7, 8>>, <<9, 15>>}
DrawCoords == {<<3, 2>>, <<12, 9>>}

\* an edit buffer a previous session saved
SavedEditBuffer(seed) ==
  [c \in 0..(PCG_TOTAL_CHARS - 1) |->
     IF c \in BufferCodes THEN Pattern(seed + c, PCG_BYTES_PER_CHAR) ELSE ZeroChar]

\* how often a transform may be repeated in a run
RunLimit(kind) == IF kind = "right" THEN MaxRun ELSE MaxRepeat

\* loadFromLocalStorage: both stores and the editor state come back from a saved session
RestoreOp ==
  \E seed \in SavedSeeds, mode \in EditModes, cur \in SavedCursors :
    /\ steps < MaxEdits
    /\ run.kind = "none"
    /\ prev' = editBuffer
    /\ pcgData' = setAllData(pcgData, Pattern(seed, PCG_TOTAL_BYTES))
    /\ editBuffer' = setAllData(editBuffer, getAllData(SavedEditBuffer(seed)))
    /\ editorState' = [editMode |-> mode, cursorX |-> cur[1], cursorY |-> cur[2],
                       currentColor |-> 2 + seed, lastDirection |-> "RIGHT"]
    /\ last' = [op |-> "restore"]
    /\ steps' = steps + 1
    /\ UNCHANGED <<fresh, file, saved, loads, run, async>>

\* EditorCommands.mouseDraw
MouseDrawOp ==
  \E dot \in DrawCoords :
    LET charX == dot[1] \div 8
        charY == dot[2] \div 8
        bufferCharCode == (charX + charY * 16) % 256
    IN /\ steps < MaxEdits
       /\ run.kind = "none"
       /\ prev' = editBuffer
       /\ editBuffer' = setPixel(editBuffer, bufferCharCode, dot[1] % 8, dot[2] % 8,
                                 editorState.currentColor)
       /\ editorState' = [editorState EXCEPT !.cursorX = ClampCursor(dot[1]),
                                             !.cursorY = ClampCursor(dot[2])]
       /\ last' = [op |-> "mouseDraw"]
       /\ steps' = steps + 1
       /\ UNCHANGED <<pcgData, fresh, file, saved, loads, run, async>>

CycleEditModeOp ==
  /\ steps < MaxEdits
  /\ run.kind = "none"
  /\ prev' = editBuffer
  /\ editorState' = [editorState EXCEPT !.editMode = cycleEditMode(editorState.editMode)]
  /\ last' = [op |-> "cycleEditMode"]
  /\ steps' = steps + 1
  /\ UNCHANGED <<pcgData, editBuffer, fresh, file, saved, loads, run, async>>

\* EditorCommands.rotation
RotationOp ==
  \E kind \in RotationTypes :
    LET rejected == applyRejects(editorState.editMode, kind)
    IN /\ run.kind \in {"none", kind}
       /\ run.n < RunLimit(kind)
       /\ prev' = editBuffer
       /\ editBuffer' = applyStore(editBuffer, editorState.editMode, editorState.cursorX,
                                   editorState.cursorY, kind)
       /\ last' = [op |-> "rotation", kind |-> kind, success |-> ~rejected]
       /\ run' = [kind |-> kind, n |-> run.n + 1, accepted |-> ~rejected,
                  origin |-> IF run.kind = "none" THEN editBuffer ELSE run.origin]
       /\ UNCHANGED <<pcgData, editorState, fresh, file, saved, steps, loads, async>>

NextXform == RestoreOp \/ MouseDrawOp \/ CycleEditModeOp \/ RotationOp

SpecXform == InitStore /\ [][NextXform]_vars

(***************************************************************************)
(* C3: apply with rot90 or rot180 in mode VERTICAL or HORIZONTAL returns   *)
(* false and leaves all 6144 bytes of the buffer as they were, for every   *)
(* cursor position in 0..15 x 0..15; for every other (mode, kind) it       *)
(* returns true.                                                           *)
(***************************************************************************)
C3_RotationRejected ==
  /\ \A mode \in EditModes, kind \in RotationTypes :
       applyRejects(mode, kind) <=>
         (kind \in {"rot90", "rot180"} /\ mode \in {"VERTICAL", "HORIZONTAL"})
  /\ \A kind \in {"rot90", "rot180"}, cx \in 0..15, cy \in 0..15 :
       editorState.editMode \in {"VERTICAL", "HORIZONTAL"} =>
         applyStore(editBuffer, editorState.editMode, cx, cy, kind) = editBuffer
  /\ last.op = "rotation" =>
       /\ last.success <=>
            ~(last.kind \in {"rot90", "rot180"} /\
              editorState.editMode \in {"VERTICAL", "HORIZONTAL"})
       /\ ~last.success => editBuffer = prev

\* rot180 is refused in a two-character mode on a buffer that holds data
C3_Witness ==
  /\ last.op = "rotation"
  /\ last.kind = "rot180"
  /\ ~last.success
  /\ editorState.editMode = "HORIZONTAL"
  /\ editorState.cursorY >= 8
  /\ prev # NewPCGData

\* rot180 is accepted in mode ALL and changes the buffer
C3_WitnessAccepted ==
  /\ last.op = "rotation"
  /\ last.kind = "rot180"
  /\ last.success
  /\ editBuffer # prev

(***************************************************************************)
(* C4: where the transform is accepted, rot180 applied twice, flipH        *)
(* applied twice and 'right' applied width times (the width of the         *)
(* resolved area, 8 or 16) give back the buffer the run started from.      *)
(***************************************************************************)
C4_Idempotence ==
  (run.kind # "none" /\ run.accepted) =>
    LET width == CursorArea(editorState.editMode, editorState.cursorX,
                            editorState.cursorY).width
    IN /\ width \in {8, 16}
       /\ (run.kind \in {"rot180", "flipH"} /\ run.n = 2) => editBuffer = run.origin
       /\ (run.kind = "right" /\ run.n = width) => editBuffer = run.origin

\* sixteen shifts of a full 16-wide area bring it back, the last one changing it
C4_Witness ==
  /\ run.kind = "right"
  /\ run.n = 16
  /\ editorState.editMode = "ALL"
  /\ editBuffer # prev
  /\ \A c \in BufferCodes : editBuffer[c] # ZeroChar

C4_WitnessRot180 ==
  /\ run.kind = "rot180"
  /\ run.n = 2
  /\ run.accepted
  /\ editBuffer # prev
  /\ editorState.editMode = "SEPARATE"
  /\ editorState.cursorX >= 8

C4_WitnessFlipH ==
  /\ run.kind = "flipH"
  /\ run.n = 2
  /\ editBuffer # prev
  /\ editorState.editMode = "VERTICAL"

(***************************************************************************)
(* C16: with src the w x h grid of the resolved area before apply and dst  *)
(* the grid after it, dst[y][x] is src[y][(x+1) mod w] for right,          *)
(* src[y][(x-1+w) mod w] for left, src[(y+1) mod h][x] for up,             *)
(* src[(y-1+h) mod h][x] for down, src[x][w-1-y] for rot90,                *)
(* src[h-1-y][w-1-x] for rot180, src[h-1-y][x] for flipH and               *)
(* src[y][w-1-x] for flipV, where grid position (x, y) is pixel            *)
(* (x mod 8, y mod 8) of the slot floor(x/8) + floor(y/8)*(2 if w>8 else 1)*)
(***************************************************************************)
\* the pixel of the store at grid position (x, y) of the area
GridPixel(buf, area, x, y) ==
  LET slot == (x \div 8) + (y \div 8) * (IF area.width > 8 THEN 2 ELSE 1)
  IN getPixel(buf, area.charCodes[slot + 1], x % 8, y % 8)

\* <<row, column>> of the source position the formulas name for dst[y][x]
FormulaSource(kind, w, h, x, y) ==
  CASE kind = "right" -> <<y, (x + 1) % w>>
    [] kind = "left" -> <<y, (x - 1 + w) % w>>
    [] kind = "up" -> <<(y + 1) % h, x>>
    [] kind = "down" -> <<(y - 1 + h) % h, x>>
    [] kind = "rot90" -> <<x, w - 1 - y>>
    [] kind = "rot180" -> <<h - 1 - y, w - 1 - x>>
    [] kind = "flipH" -> <<h - 1 - y, x>>
    [] OTHER -> <<y, w - 1 - x>>

C16_TransformFormulas ==
  (last.op = "rotation" /\ last.success) =>
    LET area == CursorArea(editorState.editMode, editorState.cursorX, editorState.cursorY)
        w == area.width
        h == area.height
    IN \A x \in 0..(w - 1), y \in 0..(h - 1) :
         LET from == FormulaSource(last.kind, w, h, x, y)
         IN GridPixel(editBuffer, area, x, y) = GridPixel(prev, area, from[2], from[1])

\* a 90 degree rotation of the whole 16x16 area changed the buffer
C16_Witness ==
  /\ last.op = "rotation"
  /\ last.kind = "rot90"
  /\ last.success
  /\ editorState.editMode = "ALL"
  /\ editBuffer # prev

\* a shift to the left in a two-character mode away from the first row
C16_WitnessLeft ==
  /\ last.op = "rotation"
  /\ last.kind = "left"
  /\ last.success
  /\ editorState.editMode = "HORIZONTAL"
  /\ editorState.cursorY >= 8
  /\ editBuffer # prev

(***************************************************************************)
(* C17: the ROTATION menu as documented: entry 0 moves the picture of the  *)
(* area one dot to the right with wrap-around (the pixel that was in       *)
(* column x is afterwards in column (x+1) mod w), entry 1 one dot to the   *)
(* left, entry 2 one dot up and entry 3 one dot down, each cyclically.     *)
(***************************************************************************)
\* rotationTypes[num] for num in 0..7, null otherwise
getRotationTypeFromNumber(num) ==
  IF num >= 0 /\ num <= 7
  THEN <<"right", "left", "up", "down", "rot90", "rot180", "flipH", "flipV">>[num + 1]
  ELSE Undefined

\* <<column, row>> where the documentation of a menu entry puts the pixel of (x, y)
DocumentedTarget(entry, w, h, x, y) ==
  CASE entry = 0 -> <<(x + 1) % w, y>>
    [] entry = 1 -> <<(x - 1 + w) % w, y>>
    [] entry = 2 -> <<x, (y - 1 + h) % h>>
    [] OTHER -> <<x, (y + 1) % h>>

\* the pixels of the area went where the documentation of the entry says
MovedAsDocumented(entry) ==
  LET area == CursorArea(editorState.editMode, editorState.cursorX, editorState.cursorY)
      w == area.width
      h == area.height
  IN \A x \in 0..(w - 1), y \in 0..(h - 1) :
       LET to == DocumentedTarget(entry, w, h, x, y)
       IN GridPixel(editBuffer, area, to[1], to[2]) = GridPixel(prev, area, x, y)

C17_MenuDirections ==
  \A entry \in 0..3 :
    (last.op = "rotation" /\ last.success /\ last.kind = getRotationTypeFromNumber(entry))
      => MovedAsDocumented(entry)

\* entries 2 and 3 move as documented; entries 0 and 1 move as documented for each other
C17_HorizontalSwapped ==
  /\ \A entry \in 2..3 :
       (last.op = "rotation" /\ last.success /\ last.kind = getRotationTypeFromNumber(entry))
         => MovedAsDocumented(entry)
  /\ \A entry \in 0..1 :
       (last.op = "rotation" /\ last.success /\ last.kind = getRotationTypeFromNumber(entry))
         => MovedAsDocumented(1 - entry)

\* entry 0 on a picture that a move to the right and a move to the left tell apart
C17_EntryZeroMovesLeft ==
  /\ last.op = "rotation"
  /\ last.success
  /\ last.kind = getRotationTypeFromNumber(0)
  /\ run.n = 1
  /\ ~MovedAsDocumented(0)
  /\ MovedAsDocumented(1)

\* entry 2 moved a picture up
C17_WitnessUp ==
  /\ last.op = "rotation"
  /\ last.success
  /\ last.kind = getRotationTypeFromNumber(2)
  /\ editBuffer # prev
  /\ MovedAsDocumented(2)

(***************************************************************************)
(* C25: transform frame.  For every store, edit mode, cursor position in   *)
(* [0,15]x[0,15] and transform kind, EditBufferTransform.apply changes no  *)
(* character other than the slots of the resolved region (SEPARATE:        *)
(* charX + 16*charY; VERTICAL: charX and charX + 16; HORIZONTAL: 16*charY  *)
(* and 16*charY + 1; ALL: 0, 1, 16, 17, with charX = floor(cursorX/8),     *)
(* charY = floor(cursorY/8)); the other 252 to 255 characters keep all 24  *)
(* bytes.                                                                  *)
(***************************************************************************)
\* the slots of the region, per edit mode and cursor quadrant
FrameSlots ==
  LET charX == editorState.cursorX \div 8
      charY == editorState.cursorY \div 8
  IN CASE editorState.editMode = "SEPARATE" -> {charX + 16 * charY}
       [] editorState.editMode = "VERTICAL" -> {charX, charX + 16}
       [] editorState.editMode = "HORIZONTAL" -> {16 * charY, 16 * charY + 1}
       [] editorState.editMode = "ALL" -> {0, 1, 16, 17}

C25_TransformFrame ==
  last.op = "rotation" =>
    LET others == (0..(PCG_TOTAL_CHARS - 1)) \ FrameSlots
    IN /\ Cardinality(others) \in 252..255
       /\ \A c \in others : editBuffer[c] = prev[c]
       /\ Len(getAllData(editBuffer)) = PCG_TOTAL_BYTES

\* a transform changed the upper-left character alone; the three characters around it
\* hold data and kept it
C25_Witness ==
  /\ last.op = "rotation"
  /\ last.success
  /\ editorState.editMode = "SEPARATE"
  /\ FrameSlots = {0}
  /\ editBuffer[0] # prev[0]
  /\ \A c \in {1, 16, 17} : prev[c] # ZeroChar /\ editBuffer[c] = prev[c]

\* the right-hand vertical pair was transformed, the left-hand pair kept its data
C25_WitnessVertical ==
  /\ last.op = "rotation"
  /\ last.success
  /\ editorState.editMode = "VERTICAL"
  /\ FrameSlots = {1, 17}
  /\ editBuffer[1] # prev[1]
  /\ editBuffer[17] # prev[17]
  /\ \A c \in {0, 16} : prev[c] # ZeroChar /\ editBuffer[c] = prev[c]

\* the lower horizontal pair was transformed, the upper pair kept its data
C25_WitnessHorizontal ==
  /\ last.op = "rotation"
  /\ last.success
  /\ editorState.editMode = "HORIZONTAL"
  /\ FrameSlots = {16, 17}
  /\ editBuffer[16] # prev[16]
  /\ \A c \in {0, 1} : prev[c] # ZeroChar /\ editBuffer[c] = prev[c]

(***************************************************************************)
(* BasFormat: the DEFCHR$ program, as ASCII text and as tokenized binary.  *)
(* A string is the sequence of its character codes.                        *)
(***************************************************************************)
BAS_LINE_START == 60960

TOKENS ==
  [DEFCHR |-> 178, DOLLAR |-> 255, FUNC_CALL |-> 160, LPAREN |-> 40, RPAREN |-> 41,
   EQUAL |-> 244, HEXCHR |-> 191, QUOTE |-> 34, INT16 |-> 18, LINE_END |-> 0]

PROGRAM_END == <<0, 0>>

\* "DEFCHR$" and "HEXCHR$"
TextDEFCHR == <<68, 69, 70, 67, 72, 82, 36>>
TextHEXCHR == <<72, 69, 88, 67, 72, 82, 36>>

\* one digit of n.toString(16).toUpperCase()
HexDigitUpper(n) == IF n < 10 THEN 48 + n ELSE 55 + n

\* mutant: the two digits of every byte are written low nibble first
HexString_LowNibbleFirst(charData) ==
  AsSeq([k \in 1..(2 * Len(charData)) |->
           LET b == charData[(k + 1) \div 2]
           IN HexDigitUpper(IF k % 2 = 1 THEN b % 16 ELSE b \div 16)])

\* hexStr += charData[j].toString(16).toUpperCase().padStart(2, '0') for every byte
HexString(charData) ==
  AsSeq([k \in 1..(2 * Len(charData)) |->
           LET b == charData[(k + 1) \div 2]
           IN HexDigitUpper(IF k % 2 = 1 THEN b \div 16 ELSE b % 16)])

\* `${n}` for a non-negative integer
RECURSIVE DecimalString(_)
DecimalString(n) ==
  IF n < 10 THEN <<48 + n>> ELSE Append(DecimalString(n \div 10), 48 + (n % 10))

\* the pieces pieces[lo], ..., pieces[hi-1] one after the other
RECURSIVE ConcatRange(_, _, _)
ConcatRange(pieces, lo, hi) ==
  IF hi <= lo THEN <<>>
  ELSE IF hi = lo + 1 THEN pieces[lo]
  ELSE LET mid == (lo + hi) \div 2
       IN ConcatRange(pieces, lo, mid) \o ConcatRange(pieces, mid, hi)

\* count <= 0 throws 'Invalid range' in saveAscii and in saveBinary
BasSaveThrows(start, end) == end - start + 1 <= 0

\* `${lineNum}DEFCHR$(${charCode})=HEXCHR$("${hexStr}")`
AsciiLine(lineNum, charCode, hexStr) ==
  DecimalString(lineNum) \o TextDEFCHR \o <<40>> \o DecimalString(charCode) \o <<41, 61>> \o
  TextHEXCHR \o <<40, 34>> \o hexStr \o <<34, 41>>

\* the bytes of the Blob saveAscii returns: lines.join('\r') + '\r', all characters ASCII
saveAscii(data, start, end) ==
  LET count == end - start + 1
      lines == [i \in 0..(count - 1) |->
                  AsciiLine(BAS_LINE_START + i * 10, start + i,
                            HexString(getCharacter(data, start + i))) \o <<13>>]
  IN ConcatRange(lines, 0, count)

\* generateLine of saveBinary
generateLine(lineNum, charCode, hexStr) ==
  <<lineNum % 256, (lineNum \div 256) % 256,
    TOKENS.DEFCHR, TOKENS.DOLLAR, TOKENS.FUNC_CALL,
    TOKENS.LPAREN,
    TOKENS.INT16, charCode % 256, (charCode \div 256) % 256,
    TOKENS.RPAREN,
    TOKENS.EQUAL,
    TOKENS.DOLLAR, TOKENS.HEXCHR,
    TOKENS.LPAREN,
    TOKENS.QUOTE>> \o hexStr \o <<TOKENS.QUOTE, TOKENS.RPAREN, TOKENS.LINE_END>>

\* mutant: the link pointer counts the line data without the pointer itself
WithLink_PointerNotCounted(lineData) ==
  <<Len(lineData) % 256, (Len(lineData) \div 256) % 256>> \o lineData

\* the link pointer (2 + lineData.length, little endian) followed by the line
WithLink(lineData) ==
  LET lineSize == 2 + Len(lineData)
  IN <<lineSize % 256, (lineSize \div 256) % 256>> \o lineData

\* the bytes of the Blob saveBinary returns
saveBinary(data, start, end) ==
  LET count == end - start + 1
      allLines == [i \in 0..(count - 1) |->
                     WithLink(generateLine(BAS_LINE_START + i * 10, start + i,
                                           HexString(getCharacter(data, start + i))))]
  IN ConcatRange(allLines, 0, count) \o PROGRAM_END

\* data.includes(0x00)
BasIsBinary(data) == \E i \in 1..Len(data) : data[i] = 0

\* new TextDecoder().decode(data) for bytes below 0x80; any other byte becomes U+FFFD
TextDecode(data) == AsSeq([i \in 1..Len(data) |-> IF data[i] < 128 THEN data[i] ELSE 65533])

\* text.split(/\r\n|\r|\n/): the state after one more character.  cr: the character
\* before was a CR, so that a LF now belongs to the same separator
SplitStep(st, ch) ==
  IF ch = 13 THEN [lines |-> Append(st.lines, st.cur), cur |-> <<>>, cr |-> TRUE]
  ELSE IF ch = 10
       THEN IF st.cr THEN [st EXCEPT !.cr = FALSE]
            ELSE [lines |-> Append(st.lines, st.cur), cur |-> <<>>, cr |-> FALSE]
       ELSE [lines |-> st.lines, cur |-> Append(st.cur, ch), cr |-> FALSE]

\* the characters text[lo+1..hi] consumed in order, the first half before the second
RECURSIVE SplitRange(_, _, _, _)
SplitRange(st, text, lo, hi) ==
  IF hi <= lo THEN st
  ELSE IF hi = lo + 1 THEN SplitStep(st, text[hi])
  ELSE LET mid == (lo + hi) \div 2
           first == SplitRange(st, text, lo, mid)
       IN IF first.cr \in BOOLEAN THEN SplitRange(first, text, mid, hi) ELSE first

SplitLines(text) ==
  LET st == SplitRange([lines |-> <<>>, cur |-> <<>>, cr |-> FALSE], text, 0, Len(text))
  IN Append(st.lines, st.cur)

\* the regular expression classes \s, \d and [0-9A-Fa-f]
SpaceChars ==
  {9, 10, 11, 12, 13, 32, 160, 5760, 8192, 8193, 8194, 8195, 8196, 8197, 8198, 8199, 8200,
   8201, 8202, 8232, 8233, 8239, 8287, 12288, 65279}
IsSpace(c) == c \in SpaceChars
IsDigit(c) == c >= 48 /\ c <= 57
IsHex(c) == (c >= 48 /\ c <= 57) \/ (c >= 65 /\ c <= 70) \/ (c >= 97 /\ c <= 102)

\* flag i: letters are compared in upper case
UpperCase(c) == IF c >= 97 /\ c <= 122 THEN c - 32 ELSE c

\* the position after the longest run of characters of a class that starts at p
InClass(c, class) ==
  IF class = "s" THEN IsSpace(c) ELSE IF class = "d" THEN IsDigit(c) ELSE IsHex(c)
RunEnd(line, p, class) ==
  CHOOSE j \in p..(Len(line) + 1) :
    /\ (j = Len(line) + 1 \/ ~InClass(line[j], class))
    /\ \A k \in p..(j - 1) : InClass(line[k], class)

\* the literal lit stands at position p of line (letters in either case)
LiteralAt(line, p, lit) ==
  /\ p + Len(lit) - 1 <= Len(line)
  /\ \A k \in 1..Len(lit) : UpperCase(line[p + k - 1]) = UpperCase(lit[k])

\* /DEFCHR\$\s*\(\s*(\d+)\s*\)\s*=\s*HEXCHR\$\s*\(\s*"([0-9A-Fa-f]+)"\s*\)/i as the
\* sequence of its elements: a literal, or a run of a class of at least min
\* characters, captured as a group or not
Lit(text) == [kind |-> "lit", text |-> text]
Run(class, min, group) == [kind |-> "run", class |-> class, min |-> min, group |-> group]
defchrPattern ==
  <<Lit(TextDEFCHR), Run("s", 0, FALSE), Lit(<<40>>), Run("s", 0, FALSE), Run("d", 1, TRUE),
    Run("s", 0, FALSE), Lit(<<41>>), Run("s", 0, FALSE), Lit(<<61>>), Run("s", 0, FALSE),
    Lit(TextHEXCHR), Run("s", 0, FALSE), Lit(<<40>>), Run("s", 0, FALSE), Lit(<<34>>),
    Run("h", 1, TRUE), Lit(<<34>>), Run("s", 0, FALSE), Lit(<<41>>)>>

\* the position after element e matched at position p, 0 if it does not match there
ElemEnd(line, p, e) ==
  IF e.kind = "lit"
  THEN IF LiteralAt(line, p, e.text) THEN p + Len(e.text) ELSE 0
  ELSE LET q == RunEnd(line, p, e.class) IN IF q - p < e.min THEN 0 ELSE q

NoMatch == [ok |-> FALSE]

\* the elements k.. of the pattern matched from position p, groups holding the
\* groups captured so far. Every run is followed by a character outside its
\* class, so the greedy match is the only one
RECURSIVE MatchFrom(_, _, _, _)
MatchFrom(line, p, k, groups) ==
  IF k > Len(defchrPattern) THEN [ok |-> TRUE, code |-> groups[1], hex |-> groups[2]]
  ELSE LET e == defchrPattern[k]
           q == ElemEnd(line, p, e)
       IN IF q = 0 THEN NoMatch
          ELSE MatchFrom(line, q, k + 1,
                         IF e.kind = "run" /\ e.group
                         THEN Append(groups, SubSeq(line, p, q - 1)) ELSE groups)

\* the pattern tried at position p
MatchAt(line, p) == MatchFrom(line, p, 1, <<>>)

\* line.match(defchrPattern): the leftmost position where the pattern matches
MatchDefchr(line) ==
  LET starts == {p \in 1..Len(line) : MatchAt(line, p).ok}
  IN IF starts = {} THEN NoMatch
     ELSE MatchAt(line, CHOOSE p \in starts : \A q \in starts : p <= q)

\* parseInt(digits, 10)
RECURSIVE ParseDecimal(_)
ParseDecimal(digits) ==
  IF digits = <<>> THEN 0
  ELSE ParseDecimal(SubSeq(digits, 1, Len(digits) - 1)) * 10 + (digits[Len(digits)] - 48)

\* the value of one hexadecimal digit
HexValue(c) == IF c <= 57 THEN c - 48 ELSE IF c <= 70 THEN c - 55 ELSE c - 87

\* charData[i] = parseInt(hexStr.substr(i * 2, 2), 16) for i in 0..23
HexBytes(hexStr) ==
  AsSeq([i \in 1..24 |-> HexValue(hexStr[2 * i - 1]) * 16 + HexValue(hexStr[2 * i])])

\* mutant: the code embedded in the line is used in both modes
TargetCode_AlwaysOriginal(mode, originalCode, currentCode) == originalCode

\* mode === 'original' ? originalCode : currentCode
TargetCode(mode, originalCode, currentCode) ==
  IF mode = "original" THEN originalCode ELSE currentCode

\* mutant: a line whose target code is out of range leaves the counter of mode 'start' alone
AsciiLoadStep_SkipKeepsCounter(st, line, mode) ==
  IF st.done THEN st
  ELSE LET match == MatchDefchr(line)
       IN IF ~match.ok THEN st
          ELSE IF Len(match.hex) # 48 THEN st
          ELSE LET targetCode == TargetCode(mode, ParseDecimal(match.code), st.currentCode)
                   next == IF mode = "start" THEN st.currentCode + 1 ELSE st.currentCode
               IN IF targetCode < 0 \/ targetCode > 255
                  THEN st
                  ELSE [store |-> setCharacter(st.store, targetCode, HexBytes(match.hex)),
                        loadCount |-> st.loadCount + 1,
                        currentCode |-> next,
                        done |-> mode = "start" /\ next > 255]

\* the body of the loop of loadAsciiText for one line; done: the loop was left by break
AsciiLoadStep(st, line, mode) ==
  IF st.done THEN st
  ELSE LET match == MatchDefchr(line)
       IN IF ~match.ok THEN st
          ELSE IF Len(match.hex) # 48 THEN st
          ELSE LET targetCode == TargetCode(mode, ParseDecimal(match.code), st.currentCode)
                   next == IF mode = "start" THEN st.currentCode + 1 ELSE st.currentCode
               IN IF targetCode < 0 \/ targetCode > 255
                  THEN [st EXCEPT !.currentCode = next]
                  ELSE [store |-> setCharacter(st.store, targetCode, HexBytes(match.hex)),
                        loadCount |-> st.loadCount + 1,
                        currentCode |-> next,
                        done |-> mode = "start" /\ next > 255]

\* the lines lines[lo+1..hi] processed in order, the first half before the second
RECURSIVE AsciiLoadRange(_, _, _, _, _)
AsciiLoadRange(st, lines, mode, lo, hi) ==
  IF hi <= lo THEN st
  ELSE IF hi = lo + 1 THEN AsciiLoadStep(st, lines[hi], mode)
  ELSE LET mid == (lo + hi) \div 2
           first == AsciiLoadRange(st, lines, mode, lo, mid)
       IN IF first.done \in BOOLEAN THEN AsciiLoadRange(first, lines, mode, mid, hi) ELSE first

loadAsciiText(text, pcg, start, mode) ==
  LET lines == SplitLines(text)
      st == AsciiLoadRange([store |-> pcg, loadCount |-> 0, currentCode |-> start,
                            done |-> FALSE], lines, mode, 0, Len(lines))
  IN [threw |-> FALSE, ret |-> st.loadCount, store |-> st.store]

\* an undefined operand of | counts as 0
ByteOr0(v) == IF v = Undefined THEN 0 ELSE v

NoResult == [ok |-> FALSE]

\* parseDefchrBinaryLine: offset is the position of B2, lineEnd that of the line's last byte
parseDefchrBinaryLine(data, offset, lineEnd) ==
  LET o1 == offset + 3
      o2 == o1 + 1
      isInt16 == At(data, o2) = TOKENS.INT16
      isSmall == At(data, o2) >= 2 /\ At(data, o2) <= 10
      charCode == IF isInt16
                  THEN ByteOr0(At(data, o2 + 1)) + 256 * ByteOr0(At(data, o2 + 2))
                  ELSE At(data, o2) - 1
      o3 == IF isInt16 THEN o2 + 3 ELSE o2 + 1
      o4 == o3 + 1
      o5 == o4 + 1
      o6 == o5 + 2
      o7 == o6 + 1
      o8 == o7 + 1
      o9 == o8 + 48
      hexStr == [i \in 1..48 |-> At(data, o8 + i - 1)]
  IN IF o1 >= lineEnd \/ At(data, o1) # TOKENS.LPAREN THEN NoResult
     ELSE IF ~isInt16 /\ ~isSmall THEN NoResult
     ELSE IF isInt16 /\ o2 + 3 > lineEnd THEN NoResult
     ELSE IF o3 >= lineEnd \/ At(data, o3) # TOKENS.RPAREN THEN NoResult
     ELSE IF o4 >= lineEnd \/ At(data, o4) # TOKENS.EQUAL THEN NoResult
     ELSE IF o5 + 2 > lineEnd \/ At(data, o5) # TOKENS.DOLLAR
                              \/ At(data, o5 + 1) # TOKENS.HEXCHR THEN NoResult
     ELSE IF o6 >= lineEnd \/ At(data, o6) # TOKENS.LPAREN THEN NoResult
     ELSE IF o7 >= lineEnd \/ At(data, o7) # TOKENS.QUOTE THEN NoResult
     ELSE IF o8 + 48 > lineEnd THEN NoResult
     ELSE IF o9 >= lineEnd \/ At(data, o9) # TOKENS.QUOTE THEN NoResult
     ELSE IF \E i \in 1..48 : ~IsHex(hexStr[i]) THEN NoResult
     ELSE [ok |-> TRUE, charCode |-> charCode, hexStr |-> AsSeq(hexStr)]

\* the first three bytes of the body of a line are B2 FF A0
IsDefchrLine(data, offset, lineEnd) ==
  /\ offset + 3 <= lineEnd
  /\ At(data, offset) = TOKENS.DEFCHR
  /\ At(data, offset + 1) = TOKENS.DOLLAR
  /\ At(data, offset + 2) = TOKENS.FUNC_CALL

\* the line that starts at st.offset: the parsed DEFCHR$ statement, or no result
LineResult(st, data) ==
  LET linkPointer == At(data, st.offset) + 256 * At(data, st.offset + 1)
      lineStart == st.offset
      offset == lineStart + 4
      lineEnd == lineStart + linkPointer - 1
  IN IF IsDefchrLine(data, offset, lineEnd)
     THEN parseDefchrBinaryLine(data, offset, lineEnd)
     ELSE NoResult

\* mutant: the line is written without the test targetCode >= 0 && targetCode <= 255
BinaryLoadStep_NoRangeTest(st, data, mode) ==
  IF st.done THEN st
  ELSE IF ~(st.offset < Len(data) - 1) THEN [st EXCEPT !.done = TRUE]
  ELSE CHOOSE after \in
         {LET linkPointer == At(data, st.offset) + 256 * At(data, st.offset + 1)
              lineStart == st.offset
              targetCode == TargetCode(mode, result.charCode, st.currentCode)
              written == result.ok
              next == IF written /\ mode = "start" THEN st.currentCode + 1
                      ELSE st.currentCode
          IN IF linkPointer = 0 THEN [st EXCEPT !.done = TRUE]
             ELSE [store |-> IF written
                             THEN setCharacter(st.store, targetCode, HexBytes(result.hexStr))
                             ELSE st.store,
                   loadCount |-> IF written THEN st.loadCount + 1 ELSE st.loadCount,
                   currentCode |-> next,
                   offset |-> lineStart + linkPointer,
                   done |-> written /\ mode = "start" /\ next > 255] :
          result \in {LineResult(st, data)}} : TRUE

\* one test of the loop condition of loadBinary and, if it holds, one pass of the body;
\* done: the loop has ended (condition false, link 0, or break); result is the line's
\* parse, taken once per pass
BinaryLoadStep(st, data, mode) ==
  IF st.done THEN st
  ELSE IF ~(st.offset < Len(data) - 1) THEN [st EXCEPT !.done = TRUE]
  ELSE CHOOSE after \in
         {LET linkPointer == At(data, st.offset) + 256 * At(data, st.offset + 1)
              lineStart == st.offset
              targetCode == TargetCode(mode, result.charCode, st.currentCode)
              written == result.ok /\ targetCode >= 0 /\ targetCode <= 255
              next == IF written /\ mode = "start" THEN st.currentCode + 1
                      ELSE st.currentCode
          IN IF linkPointer = 0 THEN [st EXCEPT !.done = TRUE]
             ELSE [store |-> IF written
                             THEN setCharacter(st.store, targetCode, HexBytes(result.hexStr))
                             ELSE st.store,
                   loadCount |-> IF written THEN st.loadCount + 1 ELSE st.loadCount,
                   currentCode |-> next,
                   offset |-> lineStart + linkPointer,
                   done |-> written /\ mode = "start" /\ next > 255] :
          result \in {LineResult(st, data)}} : TRUE

\* hi - lo steps of the loop in order, the first half before the second
RECURSIVE BinaryLoadRange(_, _, _, _, _)
BinaryLoadRange(st, data, mode, lo, hi) ==
  IF hi <= lo \/ st.done THEN st
  ELSE IF hi = lo + 1 THEN BinaryLoadStep(st, data, mode)
  ELSE LET mid == (lo + hi) \div 2
           first == BinaryLoadRange(st, data, mode, lo, mid)
       IN IF first.done THEN first ELSE BinaryLoadRange(first, data, mode, mid, hi)

\* every pass moves offset forward by at least one byte, so Len(data) steps end the loop
loadBinary(data, pcg, start, mode) ==
  LET st == BinaryLoadRange([store |-> pcg, loadCount |-> 0, currentCode |-> start,
                             offset |-> 0, done |-> FALSE], data, mode, 0, Len(data))
  IN [threw |-> FALSE, ret |-> st.loadCount, store |-> st.store]

\* BasFormat.load
BasLoad(data, pcg, start, mode) ==
  IF BasIsBinary(data) THEN loadBinary(data, pcg, start, mode)
  ELSE loadAsciiText(TextDecode(data), pcg, start, mode)

(***************************************************************************)
(* SpecBas: a store is edited, saved as a program (ASCII or binary), and   *)
(* the program is loaded into the store or into a new store.               *)
(***************************************************************************)
\* the ranges <<start, end>> the save dialog is given
BasRanges == {<<0, 0>>, <<65, 66>>, <<254, 255>>, <<0, 255>>, <<1, 0>>}
BasStarts == {0, 255}
BasModes == {"start", "original"}

BasEditOp ==
  /\ steps < MaxOps
  /\ saved.op = "none"
  /\ prev' = pcgData
  /\ pcgData' = setCharacter(pcgData, 65, Pattern(65 + steps, PCG_BYTES_PER_CHAR))
  /\ last' = [op |-> "setCharacter", code |-> 65, threw |-> FALSE]
  /\ steps' = steps + 1
  /\ UNCHANGED <<editBuffer, editorState, fresh, file, saved, loads, run, async>>

\* the whole store is replaced, before or after the program was saved
BasFillOp ==
  /\ steps < MaxOps
  /\ loads = 0
  /\ prev' = pcgData
  /\ pcgData' = setAllData(pcgData, Pattern(3 + steps, PCG_TOTAL_BYTES))
  /\ last' = [op |-> "setAllData", threw |-> FALSE]
  /\ steps' = steps + 1
  /\ UNCHANGED <<editBuffer, editorState, fresh, file, saved, loads, run, async>>

BasSaveAsciiOp ==
  \E range \in BasRanges :
    /\ saved.op = "none"
    /\ prev' = pcgData
    /\ last' = [op |-> "saveAscii", start |-> range[1], end |-> range[2],
                threw |-> BasSaveThrows(range[1], range[2])]
    /\ IF BasSaveThrows(range[1], range[2])
       THEN UNCHANGED <<file, saved>>
       ELSE /\ file' = saveAscii(pcgData, range[1], range[2])
            /\ saved' = [op |-> "saveAscii", start |-> range[1], end |-> range[2],
                         S |-> pcgData]
    /\ UNCHANGED <<pcgData, editBuffer, editorState, fresh, steps, loads, run, async>>

BasSaveBinaryOp ==
  \E range \in BasRanges :
    /\ saved.op = "none"
    /\ prev' = pcgData
    /\ last' = [op |-> "saveBinary", start |-> range[1], end |-> range[2],
                threw |-> BasSaveThrows(range[1], range[2])]
    /\ IF BasSaveThrows(range[1], range[2])
       THEN UNCHANGED <<file, saved>>
       ELSE /\ file' = saveBinary(pcgData, range[1], range[2])
            /\ saved' = [op |-> "saveBinary", start |-> range[1], end |-> range[2],
                         S |-> pcgData]
    /\ UNCHANGED <<pcgData, editBuffer, editorState, fresh, steps, loads, run, async>>

\* the program is loaded into the definition store
BasLoadOp ==
  \E start \in BasStarts, mode \in BasModes :
    LET r == BasLoad(file, pcgData, start, mode)
    IN /\ loads < MaxLoads
       /\ saved.op # "none"
       /\ prev' = pcgData
       /\ pcgData' = r.store
       /\ last' = [op |-> "load", target |-> "pcgData", start |-> start, mode |-> mode,
                   threw |-> r.threw, ret |-> r.ret]
       /\ loads' = loads + 1
       /\ UNCHANGED <<editBuffer, editorState, fresh, file, saved, steps, run, async>>

\* the program is loaded into a newly constructed store
BasLoadFreshOp ==
  \E start \in BasStarts, mode \in BasModes :
    LET r == BasLoad(file, NewPCGData, start, mode)
    IN /\ loads < MaxLoads
       /\ saved.op # "none"
       /\ prev' = NewPCGData
       /\ fresh' = r.store
       /\ last' = [op |-> "load", target |-> "fresh", start |-> start, mode |-> mode,
                   threw |-> r.threw, ret |-> r.ret]
       /\ loads' = loads + 1
       /\ UNCHANGED <<pcgData, editBuffer, editorState, file, saved, steps, run, async>>

NextBas ==
  BasEditOp \/ BasFillOp \/ BasSaveAsciiOp \/ BasSaveBinaryOp \/ BasLoadOp \/ BasLoadFreshOp

SpecBas == InitStore /\ [][NextBas]_vars

(***************************************************************************)
(* C2: program round trip.  Loading the bytes of saveAscii(S,a,b) or of    *)
(* saveBinary(S,a,b) in mode 'original', with any start, returns b-a+1,    *)
(* writes into every code of [a,b] the 24 bytes S holds for it and leaves  *)
(* every other code of the target store as it was.                         *)
(***************************************************************************)
C2_ProgramRoundTrip ==
  (/\ last.op = "load"
   /\ last.mode = "original"
   /\ saved.op \in {"saveAscii", "saveBinary"}) =>
     /\ ~last.threw
     /\ last.ret = saved.end - saved.start + 1
     /\ \A c \in 0..255 :
          LoadTarget[c] = IF c >= saved.start /\ c <= saved.end THEN saved.S[c] ELSE prev[c]

\* an ASCII program of the whole store is loaded over a store that was replaced meanwhile
C2_Witness ==
  /\ last.op = "load"
  /\ last.mode = "original"
  /\ last.start = 255
  /\ last.target = "pcgData"
  /\ saved.op = "saveAscii"
  /\ saved.start = 0
  /\ saved.end = 255
  /\ saved.S # NewPCGData
  /\ prev # saved.S
  /\ pcgData = saved.S

\* a binary program of two characters is loaded over a store that holds other data
C2_WitnessBinary ==
  /\ last.op = "load"
  /\ last.mode = "original"
  /\ last.target = "pcgData"
  /\ saved.op = "saveBinary"
  /\ saved.start = 254
  /\ prev # saved.S
  /\ pcgData # prev
  /\ pcgData # saved.S

(***************************************************************************)
(* SpecCraft: a program written by hand or by another tool, with lines     *)
(* that are well formed, loosely written or damaged, is loaded.            *)
(***************************************************************************)
MaxLines == 2

\* the kinds of line of a hand-made program, and the code each names
AsciiDescs ==
  {[kind |-> "good", code |-> 65], [kind |-> "good", code |-> 255],
   [kind |-> "good", code |-> 300], [kind |-> "loose", code |-> 66],
   [kind |-> "short", code |-> 65], [kind |-> "nonhex", code |-> 65],
   [kind |-> "noquote", code |-> 65], [kind |-> "rem", code |-> 0]}
BinaryDescs ==
  {[kind |-> "good", code |-> 65], [kind |-> "good", code |-> 255],
   [kind |-> "good", code |-> 300], [kind |-> "legacy", code |-> 5],
   [kind |-> "badtoken", code |-> 65], [kind |-> "nonhex", code |-> 65],
   [kind |-> "short", code |-> 65], [kind |-> "noparen", code |-> 66],
   [kind |-> "rem", code |-> 0]}

\* the 24 bytes the i-th line of a hand-made program defines
CraftData(i) == Pattern(100 + i, PCG_BYTES_PER_CHAR)

LowerCase(text) ==
  AsSeq([k \in 1..Len(text) |-> IF text[k] >= 65 /\ text[k] <= 90 THEN text[k] + 32 ELSE text[k]])

\* the i-th line of an ASCII program, without its line separator
CraftedAsciiLine(desc, i) ==
  LET hex == HexString(CraftData(i))
      num == DecimalString(10 * i)
  IN CASE desc.kind = "good" -> AsciiLine(10 * i, desc.code, hex)
       [] desc.kind = "loose" ->
            num \o <<32>> \o LowerCase(TextDEFCHR) \o <<32, 40, 9>> \o DecimalString(desc.code) \o
            <<32, 41, 32, 61, 32>> \o LowerCase(TextHEXCHR) \o <<32, 40, 32, 34>> \o
            LowerCase(hex) \o <<34, 32, 41>>
       [] desc.kind = "short" -> AsciiLine(10 * i, desc.code, SubSeq(hex, 1, 46))
       [] desc.kind = "nonhex" -> AsciiLine(10 * i, desc.code, [hex EXCEPT ![1] = 71])
       [] desc.kind = "noquote" ->
            num \o TextDEFCHR \o <<40>> \o DecimalString(desc.code) \o <<41, 61>> \o
            TextHEXCHR \o <<40, 34>> \o hex \o <<41>>
       [] OTHER -> num \o <<32, 82, 69, 77>>

\* the first line ends with CR LF, the others with LF
CraftedAscii(lines) ==
  ConcatRange([i \in 1..Len(lines) |->
                 CraftedAsciiLine(lines[i], i) \o (IF i = 1 THEN <<13, 10>> ELSE <<10>>)],
              1, Len(lines) + 1)

\* the i-th physical line of a binary program, link pointer included
CraftedBinaryLine(desc, i) ==
  LET hex == HexString(CraftData(i))
      good == generateLine(10 * i, desc.code, hex)
  IN WithLink(
       CASE desc.kind = "good" -> good
         [] desc.kind = "legacy" ->
              <<(10 * i) % 256, 0, TOKENS.DEFCHR, TOKENS.DOLLAR, TOKENS.FUNC_CALL,
                TOKENS.LPAREN, desc.code + 1, TOKENS.RPAREN, TOKENS.EQUAL, TOKENS.DOLLAR,
                TOKENS.HEXCHR, TOKENS.LPAREN, TOKENS.QUOTE>> \o hex \o
              <<TOKENS.QUOTE, TOKENS.RPAREN, TOKENS.LINE_END>>
         [] desc.kind = "badtoken" -> [good EXCEPT ![5] = 161]
         [] desc.kind = "nonhex" -> generateLine(10 * i, desc.code, [hex EXCEPT ![1] = 71])
         [] desc.kind = "short" -> generateLine(10 * i, desc.code, SubSeq(hex, 1, 46))
         [] desc.kind = "noparen" -> [good EXCEPT ![Len(good) - 1] = 58]
         [] OTHER -> <<(10 * i) % 256, 0, 145, 104, 105, TOKENS.LINE_END>>)

CraftedBinary(lines) ==
  ConcatRange([i \in 1..Len(lines) |-> CraftedBinaryLine(lines[i], i)], 1, Len(lines) + 1)
    \o PROGRAM_END

\* a file made outside the editor is chosen in the load dialog
CraftAsciiOp ==
  \E n \in 1..MaxLines : \E lines \in [1..n -> AsciiDescs] :
    /\ saved.op = "none"
    /\ prev' = pcgData
    /\ last' = [op |-> "pick"]
    /\ file' = CraftedAscii(lines)
    /\ saved' = [op |-> "craft", format |-> "ascii", lines |-> lines]
    /\ UNCHANGED <<pcgData, editBuffer, editorState, fresh, steps, loads, run, async>>

CraftBinaryOp ==
  \E n \in 1..MaxLines : \E lines \in [1..n -> BinaryDescs] :
    /\ saved.op = "none"
    /\ prev' = pcgData
    /\ last' = [op |-> "pick"]
    /\ file' = CraftedBinary(lines)
    /\ saved' = [op |-> "craft", format |-> "binary", lines |-> lines]
    /\ UNCHANGED <<pcgData, editBuffer, editorState, fresh, steps, loads, run, async>>

NextCraft == BasFillOp \/ CraftAsciiOp \/ CraftBinaryOp \/ BasLoadOp

SpecCraft == InitStore /\ [][NextCraft]_vars

\* a line that follows the line grammar exactly / that deviates from it only in
\* letter case and white space
WellFormed(desc) == desc.kind \in {"good", "legacy"}
Lenient(desc) == desc.kind = "loose"

\* what the loader's own parser makes of the i-th line of the program taken by itself
LineParse(format, desc, i) ==
  IF format = "ascii"
  THEN LET match == MatchDefchr(CraftedAsciiLine(desc, i))
       IN IF match.ok /\ Len(match.hex) = 48
          THEN [ok |-> TRUE, code |-> ParseDecimal(match.code), data |-> HexBytes(match.hex)]
          ELSE [ok |-> FALSE]
  ELSE LET phys == CraftedBinaryLine(desc, i)
           result == IF IsDefchrLine(phys, 4, Len(phys) - 1)
                     THEN parseDefchrBinaryLine(phys, 4, Len(phys) - 1)
                     ELSE NoResult
       IN IF result.ok
          THEN [ok |-> TRUE, code |-> result.charCode, data |-> HexBytes(result.hexStr)]
          ELSE [ok |-> FALSE]

(***************************************************************************)
(* C9: best-effort load.  For a program with damaged lines (ASCII, or      *)
(* binary with intact links) a load in mode 'original' does not raise,     *)
(* writes every well-formed DEFCHR$ line whose code is in 0..255, returns  *)
(* the number of characters written, and writes nothing for the other      *)
(* lines.  Programs with loosely written lines are not judged.             *)
(***************************************************************************)
C9_BestEffortLoad ==
  (/\ last.op = "load"
   /\ last.mode = "original"
   /\ saved.op = "craft"
   /\ \A i \in 1..Len(saved.lines) : ~Lenient(saved.lines[i])) =>
     LET valid == {i \in 1..Len(saved.lines) :
                     WellFormed(saved.lines[i]) /\ saved.lines[i].code \in 0..255}
     IN /\ ~last.threw
        /\ last.ret = Cardinality(valid)
        /\ \A c \in 0..255 :
             LET writers == {i \in valid : saved.lines[i].code = c}
             IN LoadTarget[c] =
                  IF writers = {} THEN prev[c]
                  ELSE CraftData(CHOOSE i \in writers : \A j \in writers : j <= i)

\* the same, for programs none of whose lines lacks only the ')' after the closing quote
C9_WithoutUncheckedParen ==
  (saved.op = "craft" /\ \E i \in 1..Len(saved.lines) : saved.lines[i].kind = "noparen")
    \/ C9_BestEffortLoad

\* a binary line whose closing quote is followed by ':' is written to its code
C9_UncheckedParenWritten ==
  /\ last.op = "load"
  /\ last.mode = "original"
  /\ saved.op = "craft"
  /\ saved.format = "binary"
  /\ \E i \in 1..Len(saved.lines) :
       /\ saved.lines[i].kind = "noparen"
       /\ LoadTarget[saved.lines[i].code] = CraftData(i)
       /\ prev[saved.lines[i].code] # CraftData(i)
  /\ last.ret = Len(saved.lines)

\* a damaged line between data leaves the store alone while a good line is written
C9_WitnessDamagedSkipped ==
  /\ last.op = "load"
  /\ last.mode = "original"
  /\ last.target = "pcgData"
  /\ saved.op = "craft"
  /\ Len(saved.lines) = 2
  /\ saved.lines[1].kind = "nonhex"
  /\ saved.lines[2] = [kind |-> "good", code |-> 255]
  /\ last.ret = 1
  /\ prev[65] # ZeroChar
  /\ pcgData[65] = prev[65]
  /\ pcgData[255] = CraftData(2)

(***************************************************************************)
(* C10: target-code resolution, ASCII and binary.  In mode 'original' a    *)
(* line the loader parses is written to the code embedded in it (when that *)
(* is in 0..255), whatever the caller's start; in mode 'start' the         *)
(* embedded code is ignored and the k-th parsed line (k = 0, 1, ...) is    *)
(* written to start+k, and nothing is written once the counter is 256.     *)
(***************************************************************************)
C10_TargetCode ==
  (last.op = "load" /\ saved.op = "craft") =>
    LET n == Len(saved.lines)
        parse == AsSeq([i \in 1..n |-> LineParse(saved.format, saved.lines[i], i)])
        parsed == {i \in 1..n : parse[i].ok}
        k == [i \in parsed |-> Cardinality({j \in parsed : j < i})]
        writers(c) == IF last.mode = "original"
                      THEN {i \in parsed : parse[i].code = c}
                      ELSE {i \in parsed : last.start + k[i] = c}
    IN /\ \A c \in 0..255 :
            LoadTarget[c] =
              IF writers(c) = {} THEN prev[c]
              ELSE parse[CHOOSE i \in writers(c) : \A j \in writers(c) : j <= i].data
       /\ last.mode = "start" =>
            last.ret = Cardinality({i \in parsed : last.start + k[i] <= 255})

\* mode 'start' at 255: the first parsed line goes to 255 although it names another code,
\* the second parsed line is not written
C10_Witness ==
  /\ last.op = "load"
  /\ last.mode = "start"
  /\ last.start = 255
  /\ saved.op = "craft"
  /\ Len(saved.lines) = 2
  /\ \A i \in 1..2 : LineParse(saved.format, saved.lines[i], i).ok
  /\ saved.lines[1].code = 65
  /\ LoadTarget[255] = CraftData(1)
  /\ LoadTarget[65] = prev[65]
  /\ LoadTarget[0] = prev[0]
  /\ last.ret = 1

\* mode 'original' with start 255: both lines go to the codes they name
C10_WitnessOriginal ==
  /\ last.op = "load"
  /\ last.mode = "original"
  /\ last.start = 255
  /\ saved.op = "craft"
  /\ saved.format = "ascii"
  /\ Len(saved.lines) = 2
  /\ saved.lines[1] = [kind |-> "good", code |-> 65]
  /\ saved.lines[2] = [kind |-> "loose", code |-> 66]
  /\ LoadTarget[65] = CraftData(1)
  /\ LoadTarget[66] = CraftData(2)
  /\ last.ret = 2

(***************************************************************************)
(* SpecGrammar: a tokenized binary program whose lines follow the line     *)
(* grammar or deviate from it in one byte is loaded.                       *)
(***************************************************************************)
MaxGrammarLines == 2

\* the positions of a line written by generateLine (1 = low byte of the line number):
\* 3..5 B2 FF A0, 6 '(', 7 the integer prefix 12, 10 ')', 11 F4, 12..13 FF BF, 14 '(',
\* 15 '"', 16..63 the hex characters, 64 '"', 65 ')', 66 the end of the line
GrammarPositions == {3, 4, 5, 6, 7, 10, 11, 12, 13, 14, 15, 16, 63, 64, 65}

\* the byte written over the byte of the grammar: ':'
DeviationByte == 58

\* the lines of the program: grammatical with a 3-byte or a 1-byte code, with one
\* byte replaced, or with a byte added between the last ')' and the end of the line
GrammarDescs ==
  {[kind |-> "good", code |-> 65, pos |-> 0], [kind |-> "good", code |-> 300, pos |-> 0],
   [kind |-> "legacy", code |-> 5, pos |-> 0], [kind |-> "extra", code |-> 66, pos |-> 66]}
    \cup {[kind |-> "deviate", code |-> 66, pos |-> p] : p \in GrammarPositions}

\* the i-th physical line of the program, link pointer included
GrammarLine(desc, i) ==
  LET hex == HexString(CraftData(i))
      good == generateLine(10 * i, desc.code, hex)
  IN WithLink(
       CASE desc.kind = "good" -> good
         [] desc.kind = "legacy" ->
              <<(10 * i) % 256, 0, TOKENS.DEFCHR, TOKENS.DOLLAR, TOKENS.FUNC_CALL,
                TOKENS.LPAREN, desc.code + 1, TOKENS.RPAREN, TOKENS.EQUAL, TOKENS.DOLLAR,
                TOKENS.HEXCHR, TOKENS.LPAREN, TOKENS.QUOTE>> \o hex \o
              <<TOKENS.QUOTE, TOKENS.RPAREN, TOKENS.LINE_END>>
         [] desc.kind = "extra" ->
              SubSeq(good, 1, desc.pos - 1) \o <<DeviationByte>> \o
              SubSeq(good, desc.pos, Len(good))
         [] OTHER -> [good EXCEPT ![desc.pos] = DeviationByte])

GrammarProgram(lines) ==
  ConcatRange([i \in 1..Len(lines) |-> GrammarLine(lines[i], i)], 1, Len(lines) + 1)
    \o PROGRAM_END

\* a binary program made outside the editor is chosen in the load dialog
GrammarCraftOp ==
  \E n \in 1..MaxGrammarLines : \E lines \in [1..n -> GrammarDescs] :
    /\ saved.op = "none"
    /\ prev' = pcgData
    /\ last' = [op |-> "pick"]
    /\ file' = GrammarProgram(lines)
    /\ saved' = [op |-> "grammar", format |-> "binary", lines |-> lines]
    /\ UNCHANGED <<pcgData, editBuffer, editorState, fresh, steps, loads, run, async>>

NextGrammar == BasFillOp \/ GrammarCraftOp \/ BasLoadOp

SpecGrammar == InitStore /\ [][NextGrammar]_vars

\* the line follows the grammar exactly
Grammatical(desc) == desc.kind \in {"good", "legacy"}

\* the store and the count a load leaves when exactly the lines of the set accepted
\* are taken as DEFCHR$ lines: each goes to its target code if that is in 0..255
GrammarOutcome(accepted) ==
  LET k == [i \in accepted |-> Cardinality({j \in accepted : j < i})]
      target == [i \in accepted |-> IF last.mode = "original" THEN saved.lines[i].code
                                    ELSE last.start + k[i]]
      written == {i \in accepted : target[i] \in 0..255}
  IN /\ ~last.threw
     /\ last.ret = Cardinality(written)
     /\ \A c \in 0..255 :
          LET writers == {i \in written : target[i] = c}
          IN LoadTarget[c] =
               IF writers = {} THEN prev[c]
               ELSE CraftData(CHOOSE i \in writers : \A j \in writers : j <= i)

(***************************************************************************)
(* C11: strict binary line grammar.  loadBinary writes a character for a   *)
(* physical line only if its body is exactly B2 FF A0 ( int ) F4 FF BF     *)
(* ( " 48 hex characters " ); a line that deviates at any of these         *)
(* positions, the byte after the closing quote included, loads nothing,    *)
(* and the lines after it are still processed.                             *)
(***************************************************************************)
C11_StrictGrammar ==
  (last.op = "load" /\ saved.op = "grammar") =>
    GrammarOutcome({i \in 1..Len(saved.lines) : Grammatical(saved.lines[i])})

\* what the code enforces: the grammar up to the closing quote
C11_GrammarUpToQuote ==
  (last.op = "load" /\ saved.op = "grammar") =>
    GrammarOutcome({i \in 1..Len(saved.lines) :
                      Grammatical(saved.lines[i]) \/ saved.lines[i].pos >= 65})

\* a line with ':' in place of the last ')' is written, and so is the line after it
C11_DeviationAfterQuoteWritten ==
  /\ last.op = "load"
  /\ last.mode = "original"
  /\ saved.op = "grammar"
  /\ Len(saved.lines) = 2
  /\ saved.lines[1] = [kind |-> "deviate", code |-> 66, pos |-> 65]
  /\ saved.lines[2] = [kind |-> "good", code |-> 65, pos |-> 0]
  /\ prev[66] # CraftData(1)
  /\ LoadTarget[66] = CraftData(1)
  /\ LoadTarget[65] = CraftData(2)
  /\ last.ret = 2

\* a line with ':' in place of the opening quote loads nothing, the line after it is written
C11_WitnessDeviationSkipped ==
  /\ last.op = "load"
  /\ last.mode = "original"
  /\ saved.op = "grammar"
  /\ Len(saved.lines) = 2
  /\ saved.lines[1] = [kind |-> "deviate", code |-> 66, pos |-> 15]
  /\ saved.lines[2] = [kind |-> "good", code |-> 65, pos |-> 0]
  /\ prev[66] # ZeroChar
  /\ LoadTarget[66] = prev[66]
  /\ LoadTarget[65] = CraftData(2)
  /\ last.ret = 1

(***************************************************************************)
(* C12: structure of the output of saveBinary.  For a range of n           *)
(* characters the output is n physical lines followed by 00 00 and nothing *)
(* else; line i starts with a little-endian link equal to the distance to  *)
(* the next link, then the little-endian line number 60960+10*i, and its   *)
(* code is written as 12 lo hi; following the links from offset 0 visits   *)
(* exactly n lines and then reaches the 00 00 terminator.                  *)
(***************************************************************************)
\* the offset the link at offset o leads to; Undefined when there is no link at o
\* (o is no offset, fewer than two bytes are left, or the link is 0)
FollowLink(data, o) ==
  IF o = Undefined \/ o + 1 >= Len(data) THEN Undefined
  ELSE IF data[o + 1] + 256 * data[o + 2] = 0 THEN Undefined
  ELSE o + data[o + 1] + 256 * data[o + 2]

\* offs followed by the offsets reached by hi - lo more links
RECURSIVE LinkOffsets(_, _, _, _)
LinkOffsets(offs, data, lo, hi) ==
  IF hi <= lo THEN offs
  ELSE IF hi = lo + 1 THEN Append(offs, FollowLink(data, offs[Len(offs)]))
  ELSE LET mid == (lo + hi) \div 2
           first == LinkOffsets(offs, data, lo, mid)
       IN IF Len(first) = 0 THEN first ELSE LinkOffsets(first, data, mid, hi)

C12_SaveBinaryStructure ==
  saved.op = "saveBinary" =>
    LET n == saved.end - saved.start + 1
        offs == LinkOffsets(<<0>>, file, 0, n)
    IN /\ \A i \in 1..(n + 1) : offs[i] # Undefined
       /\ offs[n + 1] + 2 = Len(file)
       /\ At(file, offs[n + 1]) = 0
       /\ At(file, offs[n + 1] + 1) = 0
       /\ \A i \in 0..(n - 1) :
            LET o == offs[i + 1]
            IN /\ At(file, o + 2) + 256 * At(file, o + 3) = 60960 + 10 * i
               /\ At(file, o + 4) = 178
               /\ At(file, o + 5) = 255
               /\ At(file, o + 6) = 160
               /\ At(file, o + 7) = 40
               /\ At(file, o + 8) = 18
               /\ At(file, o + 9) + 256 * At(file, o + 10) = saved.start + i
               /\ At(file, o + 11) = 41
               /\ At(file, offs[i + 2] - 1) = 0

\* the whole of an edited store was saved: 256 lines of 68 bytes and the terminator
C12_Witness ==
  /\ last.op = "saveBinary"
  /\ saved.op = "saveBinary"
  /\ saved.start = 0
  /\ saved.end = 255
  /\ saved.S # NewPCGData
  /\ Len(file) = 256 * 68 + 2
  /\ At(file, 255 * 68) = 68
  /\ At(file, 255 * 68 + 2) + 256 * At(file, 255 * 68 + 3) = 63510

(***************************************************************************)
(* ColorReducer: an RGBA raster is reduced to the 8 colours of the X1.     *)
(* imageData is [width, height, data]; data and the grids returned are     *)
(* functions on 0..n-1, as the arrays of the code.  A threshold is the     *)
(* fraction tnum / tden.                                                   *)
(***************************************************************************)
X1_PALETTE ==
  <<<<0, 0, 0>>, <<0, 0, 255>>, <<255, 0, 0>>, <<255, 0, 255>>,
    <<0, 255, 0>>, <<0, 255, 255>>, <<255, 255, 0>>, <<255, 255, 255>>>>

DITHER_MATRIX == <<<<1, 9, 3, 11>>, <<13, 5, 15, 7>>, <<4, 12, 2, 10>>, <<16, 8, 14, 6>>>>

\* mutant: the green bit is weighted 8
rgbToX1Color_GreenBit3(r, g, b, tnum, tden) ==
  (IF b * tden >= tnum THEN 1 ELSE 0) + (IF r * tden >= tnum THEN 2 ELSE 0)
    + (IF g * tden >= tnum THEN 8 ELSE 0)

\* bBit + rBit * 2 + gBit * 4, a bit being set when the channel >= threshold
rgbToX1Color(r, g, b, tnum, tden) ==
  (IF b * tden >= tnum THEN 1 ELSE 0) + (IF r * tden >= tnum THEN 2 ELSE 0)
    + (IF g * tden >= tnum THEN 4 ELSE 0)

\* the three colour channels of pixel (x, y)
PixelRGB(imageData, x, y) ==
  LET idx == (y * imageData.width + x) * 4
  IN <<imageData.data[idx], imageData.data[idx + 1], imageData.data[idx + 2]>>

\* reduce: every channel against 128
reduceMode(imageData) ==
  [y \in 0..(imageData.height - 1) |->
     [x \in 0..(imageData.width - 1) |->
        LET c == PixelRGB(imageData, x, y) IN rgbToX1Color(c[1], c[2], c[3], 128, 1)]]

\* mutant: the green channel is compared with the threshold of the next matrix column
ditherMode_GreenOwnThreshold(imageData) ==
  [y \in 0..(imageData.height - 1) |->
     [x \in 0..(imageData.width - 1) |->
        LET c == PixelRGB(imageData, x, y)
            t == DITHER_MATRIX[(y % 4) + 1][(x % 4) + 1] * 255
            tg == DITHER_MATRIX[(y % 4) + 1][((x + 1) % 4) + 1] * 255
        IN (IF c[3] * 17 >= t THEN 1 ELSE 0) + (IF c[1] * 17 >= t THEN 2 ELSE 0)
             + (IF c[2] * 17 >= tg THEN 4 ELSE 0)]]

\* dither: the threshold (DITHER_MATRIX[y % 4][x % 4] / 17) * 255; in double arithmetic
\* it is exactly 15 * DITHER_MATRIX[y % 4][x % 4] for all 16 entries
ditherMode(imageData) ==
  [y \in 0..(imageData.height - 1) |->
     [x \in 0..(imageData.width - 1) |->
        LET c == PixelRGB(imageData, x, y)
        IN rgbToX1Color(c[1], c[2], c[3], DITHER_MATRIX[(y % 4) + 1][(x % 4) + 1] * 255, 17)]]

\* edfs keeps its buffer in doubles.  All values are multiples of 16^-k after k
\* diffusion steps, so they are exact; the model counts in units of 16^-5
EdfsUnit == 1048576

\* what diffuse(dx, dy, weight / 16) adds to the cell (nx, ny) when pixel (x, y) with
\* error err is processed in direction stepX
EdfsWeight(x, y, stepX, nx, ny) ==
  IF nx = x + stepX /\ ny = y THEN 7
  ELSE IF nx = x - stepX /\ ny = y + 1 THEN 3
  ELSE IF nx = x /\ ny = y + 1 THEN 5
  ELSE IF nx = x + stepX /\ ny = y + 1 THEN 1
  ELSE 0

\* mutant: the colours of an odd row are appended in the order they are computed
EdfsStep_OddRowsAppended(st, width, k) ==
  LET y == k \div width
      leftToRight == y % 2 = 0
      stepX == IF leftToRight THEN 1 ELSE -1
      x == IF leftToRight THEN k % width ELSE width - 1 - (k % width)
      old == st.buffer[y][x]
      new == [c \in 1..3 |-> IF old[c] >= 128 * EdfsUnit THEN 255 ELSE 0]
      err == [c \in 1..3 |-> old[c] - new[c] * EdfsUnit]
      color == rgbToX1Color(new[1], new[2], new[3], 128, 1)
      row == Append(st.row, color)
      rowDone == (k % width) = width - 1
  IN [buffer |-> [ny \in DOMAIN st.buffer |-> [nx \in DOMAIN st.buffer[ny] |->
                    AsSeq([c \in 1..3 |->
                       st.buffer[ny][nx][c] + (err[c] * EdfsWeight(x, y, stepX, nx, ny)) \div 16])]],
      result |-> IF rowDone THEN Append(st.result, row) ELSE st.result,
      row |-> IF rowDone THEN <<>> ELSE row]

\* the k-th pixel processed (k = 0, 1, ...): even rows left to right, odd rows right to left
EdfsStep(st, width, k) ==
  LET y == k \div width
      leftToRight == y % 2 = 0
      stepX == IF leftToRight THEN 1 ELSE -1
      x == IF leftToRight THEN k % width ELSE width - 1 - (k % width)
      old == st.buffer[y][x]
      new == [c \in 1..3 |-> IF old[c] >= 128 * EdfsUnit THEN 255 ELSE 0]
      err == [c \in 1..3 |-> old[c] - new[c] * EdfsUnit]
      color == rgbToX1Color(new[1], new[2], new[3], 128, 1)
      row == IF leftToRight THEN Append(st.row, color) ELSE <<color>> \o st.row
      rowDone == (k % width) = width - 1
  IN [buffer |-> [ny \in DOMAIN st.buffer |-> [nx \in DOMAIN st.buffer[ny] |->
                    AsSeq([c \in 1..3 |->
                       st.buffer[ny][nx][c] + (err[c] * EdfsWeight(x, y, stepX, nx, ny)) \div 16])]],
      result |-> IF rowDone THEN Append(st.result, row) ELSE st.result,
      row |-> IF rowDone THEN <<>> ELSE row]

RECURSIVE EdfsLoop(_, _, _, _)
EdfsLoop(st, width, k, n) ==
  IF k >= n THEN st ELSE EdfsLoop(EdfsStep(st, width, k), width, k + 1, n)

\* an array built by push / unshift, indexed from 0
ZeroBased(seq) == [i \in 0..(Len(seq) - 1) |-> seq[i + 1]]

\* for a raster without pixels the loops do not run (height 0) or push empty rows (width 0)
edfsMode(imageData) ==
  IF imageData.width = 0
  THEN [y \in 0..(imageData.height - 1) |-> ZeroBased(<<>>)]
  ELSE LET st == EdfsLoop(
                   [buffer |-> [y \in 0..(imageData.height - 1) |->
                                  [x \in 0..(imageData.width - 1) |->
                                     LET c == PixelRGB(imageData, x, y)
                                     IN <<c[1] * EdfsUnit, c[2] * EdfsUnit, c[3] * EdfsUnit>>]],
                    result |-> <<>>, row |-> <<>>],
                   imageData.width, 0, imageData.width * imageData.height)
       IN ZeroBased([y \in 1..Len(st.result) |-> ZeroBased(st.result[y])])

\* sigmoidalContrast(value, -8, 0.5) and enhanceSaturation(r, g, b, 2.0), computed in
\* double arithmetic, for the channel values and the colours of RasterColours
sigmoidalContrast(value) ==
  CASE value = 0 -> 0 [] value = 40 -> 11 [] value = 127 -> 126 [] value = 128 -> 129
    [] value = 130 -> 133 [] value = 200 -> 235 [] value = 220 -> 246 [] value = 255 -> 255
enhanceSaturation(rgb) ==
  CASE rgb = <<0, 0, 0>> -> <<0, 0, 0>>
    [] rgb = <<255, 0, 0>> -> <<255, 0, 0>>
    [] rgb = <<129, 126, 235>> -> <<110, 106, 255>>
    [] rgb = <<11, 133, 246>> -> <<2, 133, 255>>

\* retro: contrast and saturation, then the threshold 28 + (DITHER_MATRIX[y % 4][x % 4] / 17) * 200,
\* which no integer channel value equals
retroMode(imageData) ==
  [y \in 0..(imageData.height - 1) |->
     [x \in 0..(imageData.width - 1) |->
        LET c == PixelRGB(imageData, x, y)
            processed == enhanceSaturation(<<sigmoidalContrast(c[1]), sigmoidalContrast(c[2]),
                                             sigmoidalContrast(c[3])>>)
        IN rgbToX1Color(processed[1], processed[2], processed[3],
                        28 * 17 + DITHER_MATRIX[(y % 4) + 1][(x % 4) + 1] * 200, 17)]]

reduceColors(imageData, mode) ==
  CASE mode = "reduce" -> reduceMode(imageData)
    [] mode = "dither" -> ditherMode(imageData)
    [] mode = "edfs" -> edfsMode(imageData)
    [] mode = "retro" -> retroMode(imageData)
    [] OTHER -> reduceMode(imageData)

isExactX1Colors(imageData) ==
  \A i \in 0..(imageData.width * imageData.height - 1) :
    \E p \in 1..8 :
      <<imageData.data[4 * i], imageData.data[4 * i + 1], imageData.data[4 * i + 2]>>
        = X1_PALETTE[p]

(***************************************************************************)
(* SpecReduce: a small raster is made and reduced in one of the modes.     *)
(***************************************************************************)
ColorReduceModes == {"none", "reduce", "dither", "edfs", "retro"}
RasterSizes == {<<1, 1>>, <<2, 1>>, <<1, 2>>, <<2, 2>>}
RasterColours == {<<0, 0, 0>>, <<255, 0, 0>>, <<128, 127, 200>>, <<40, 130, 220>>}

\* the ImageData of a raster of the given size and pixel colours; alpha is 255
RasterImageData(width, height, colours) ==
  [width |-> width, height |-> height,
   data |-> [idx \in 0..(width * height * 4 - 1) |->
               IF idx % 4 = 3 THEN 255 ELSE colours[(idx \div 4) + 1][(idx % 4) + 1]]]

\* a raster is made and handed to the quantizer
PickRasterOp ==
  \E size \in RasterSizes : \E colours \in [1..(size[1] * size[2]) -> RasterColours] :
    /\ saved.op = "none"
    /\ prev' = pcgData
    /\ last' = [op |-> "pick"]
    /\ file' = RasterImageData(size[1], size[2], colours)
    /\ saved' = [op |-> "raster"]
    /\ UNCHANGED <<pcgData, editBuffer, editorState, fresh, steps, loads, run, async>>

\* reduceColors(imageData, mode)
ReduceColorsOp ==
  \E mode \in ColorReduceModes :
    /\ saved.op = "raster"
    /\ last.op = "pick"
    /\ prev' = pcgData
    /\ last' = [op |-> "reduceColors", mode |-> mode, threw |-> FALSE,
                result |-> reduceColors(file, mode)]
    /\ UNCHANGED <<pcgData, editBuffer, editorState, fresh, file, saved, steps, loads, run, async>>

NextReduce == PickRasterOp \/ ReduceColorsOp

SpecReduce == InitStore /\ [][NextReduce]_vars

(***************************************************************************)
(* C15: quantizer invariant.  For a raster of width W and height H with    *)
(* channel values in 0..255 and every mode, reduceColors returns H rows of *)
(* W cells, every cell an integer in 0..7, and raises no error.            *)
(***************************************************************************)
C15_QuantizerGrid ==
  last.op = "reduceColors" =>
    /\ ~last.threw
    /\ DOMAIN last.result = 0..(file.height - 1)
    /\ \A y \in DOMAIN last.result :
         /\ DOMAIN last.result[y] = 0..(file.width - 1)
         /\ \A x \in DOMAIN last.result[y] : last.result[y][x] \in 0..7

\* an error-diffused 2x2 raster: the error of the first pixel turns its right neighbour on
C15_Witness ==
  /\ last.op = "reduceColors"
  /\ last.mode = "edfs"
  /\ file.width = 2
  /\ file.height = 2
  /\ PixelRGB(file, 0, 0) = <<128, 127, 200>>
  /\ PixelRGB(file, 1, 0) = <<128, 127, 200>>
  /\ last.result[0][0] = 3
  /\ last.result[0][1] # 3

\* the same raster in mode retro and in mode dither
C15_WitnessRetro ==
  /\ last.op = "reduceColors"
  /\ last.mode = "retro"
  /\ file.width = 2
  /\ file.height = 2
  /\ \A y \in 0..1 : \A x \in 0..1 : PixelRGB(file, x, y) = <<40, 130, 220>>
  /\ \E y \in 0..1 : \E x \in 0..1 : last.result[y][x] # last.result[0][0]

(***************************************************************************)
(* EditorCommands.transfer: a range of characters of the definition store  *)
(* is copied to another place of the same store.                           *)
(***************************************************************************)
\* mutant: a range that ends exactly at character 255 is refused as well
transferRejects_EndExcluded(start, end, target) ==
  end - start + 1 <= 0 \/ target + (end - start + 1) >= 256

\* count <= 0 || target + count > 256
transferRejects(start, end, target) ==
  end - start + 1 <= 0 \/ target + (end - start + 1) > 256

\* the passes lo..hi-1 of the loop, in order: pass i reads character start+i from the
\* store as the passes before it left it, and writes the copy to character target+i
RECURSIVE TransferRange(_, _, _, _, _)
TransferRange(pcg, start, target, lo, hi) ==
  IF hi <= lo THEN pcg
  ELSE IF hi = lo + 1
  THEN setCharacter(pcg, target + lo, getCharacter(pcg, start + lo))
  ELSE LET mid == (lo + hi) \div 2
           first == TransferRange(pcg, start, target, lo, mid)
       IN IF DOMAIN first = {} THEN first
          ELSE TransferRange(first, start, target, mid, hi)

\* the store after transfer(start, end, target)
transfer(pcg, start, end, target) ==
  IF transferRejects(start, end, target) THEN pcg
  ELSE TransferRange(pcg, start, target, 0, end - start + 1)

(***************************************************************************)
(* SpecTransfer: the definition store is filled and ranges of it are       *)
(* transferred.                                                            *)
(***************************************************************************)
\* <<start, end, target>>: apart, overlapping towards higher and towards lower codes,
\* onto itself, up to the last character, beyond it, and with end < start
TransferArgs ==
  {<<0, 1, 16>>, <<65, 66, 66>>, <<0, 15, 8>>, <<66, 67, 65>>, <<8, 23, 0>>, <<65, 65, 65>>,
   <<0, 127, 128>>, <<0, 254, 1>>, <<0, 255, 0>>, <<0, 127, 129>>, <<255, 255, 1>>,
   <<66, 65, 0>>}

\* the number of operations of a session that fills the store and transfers ranges
MaxTransferSteps == 3

\* EditorCommands.transfer
TransferOp ==
  \E args \in TransferArgs :
    /\ steps < MaxTransferSteps
    /\ prev' = pcgData
    /\ pcgData' = transfer(pcgData, args[1], args[2], args[3])
    /\ last' = [op |-> "transfer", start |-> args[1], end |-> args[2], target |-> args[3],
                success |-> ~transferRejects(args[1], args[2], args[3])]
    /\ steps' = steps + 1
    /\ UNCHANGED <<editBuffer, editorState, fresh, file, saved, loads, run, async>>

NextTransfer == BasFillOp \/ TransferOp

SpecTransfer == InitStore /\ [][NextTransfer]_vars

\* the outcome of a transfer that copies every character from the store as it was before
TransferCopies ==
  IF last.end < last.start \/ last.target + (last.end - last.start + 1) > 256
  THEN ~last.success /\ pcgData = prev
  ELSE /\ last.success
       /\ \A c \in 0..255 :
            pcgData[c] = IF c >= last.target /\ c <= last.target + (last.end - last.start)
                         THEN prev[last.start + (c - last.target)]
                         ELSE prev[c]

(***************************************************************************)
(* C19: TRANSFER copies a range.  For start <= end with target + count <=  *)
(* 256, character target+i holds afterwards the 24 bytes character start+i *)
(* held before, also when the ranges overlap, and the characters outside   *)
(* the destination are unchanged; for end < start or target + count > 256  *)
(* it reports failure and changes nothing.                                 *)
(***************************************************************************)
C19_TransferCopies ==
  last.op = "transfer" => TransferCopies

\* the same, for transfers whose destination does not start inside the source above its start
C19_NotOverlappingUpwards ==
  (last.op = "transfer" /\ ~(last.target > last.start /\ last.target <= last.end))
    => TransferCopies

\* transfer(65, 66, 66) on a filled store: character 67 receives the old character 65,
\* not the old character 66
C19_OverlapRepeatsFirst ==
  /\ last.op = "transfer"
  /\ last.start = 65
  /\ last.end = 66
  /\ last.target = 66
  /\ last.success
  /\ prev[65] # prev[66]
  /\ pcgData[66] = prev[65]
  /\ pcgData[67] = prev[65]
  /\ pcgData[67] # prev[66]

\* a transfer towards lower codes with overlapping ranges copies every character
C19_WitnessDownwards ==
  /\ last.op = "transfer"
  /\ last.start = 8
  /\ last.end = 23
  /\ last.target = 0
  /\ last.success
  /\ prev[8] # prev[16]
  /\ \A i \in 0..15 : pcgData[i] = prev[8 + i]
  /\ pcgData[16] = prev[16]

(***************************************************************************)
(* EditorCommands.colorChange: the colours of the current edit area are    *)
(* replaced through a map of eight entries.                                *)
(***************************************************************************)
\* mutant: a pixel that received its new colour is looked up in the map once more
ColorChangePixel_Chained(buf, charCode, x, y, colorMap) ==
  LET currentColor == getPixel(buf, charCode, x, y)
      newColor == colorMap[colorMap[currentColor + 1] + 1]
  IN IF newColor # currentColor THEN setPixel(buf, charCode, x, y, newColor) ELSE buf

\* the body of the loops of colorChange for one pixel of one character
ColorChangePixel(buf, charCode, x, y, colorMap) ==
  LET currentColor == getPixel(buf, charCode, x, y)
      newColor == colorMap[currentColor + 1]
  IN IF newColor # currentColor THEN setPixel(buf, charCode, x, y, newColor) ELSE buf

\* iterations lo..hi-1 of the loops of colorChange: k = 64*i + 8*y + x visits pixel (x, y)
\* of charCodes[i]; the first half is carried out before the second half starts
RECURSIVE ColorChangeRange(_, _, _, _, _)
ColorChangeRange(buf, charCodes, colorMap, lo, hi) ==
  IF hi <= lo THEN buf
  ELSE IF hi = lo + 1
  THEN ColorChangePixel(buf, charCodes[(lo \div 64) + 1], lo % 8, (lo \div 8) % 8, colorMap)
  ELSE LET mid == (lo + hi) \div 2
           first == ColorChangeRange(buf, charCodes, colorMap, lo, mid)
       IN IF DOMAIN first = {} THEN first
          ELSE ColorChangeRange(first, charCodes, colorMap, mid, hi)

\* the edit buffer after EditorCommands.colorChange
colorChange(buf, editMode, cursorX, cursorY, colorMap) ==
  LET pos == getCursorCharPos(cursorX, cursorY)
      charCodes == getEditArea(editMode, pos.charX, pos.charY).charCodes
  IN ColorChangeRange(buf, charCodes, colorMap, 0, 64 * Len(charCodes))

MaxColorSteps == 3

\* colour maps the COLOR CHANGE panel emits: entry i + 1 is the new colour of colour i
ColorMaps ==
  { <<0, 1, 2, 3, 4, 5, 6, 7>>,
    <<0, 2, 3, 3, 4, 5, 6, 7>>,
    <<1, 0, 2, 4, 3, 5, 7, 6>>,
    <<7, 6, 5, 4, 3, 2, 1, 0>>,
    <<0, 0, 0, 0, 0, 0, 0, 1>> }

\* main.ts handleInput 'color-change': EditorCommands.colorChange
ColorChangeOp ==
  \E colorMap \in ColorMaps :
    /\ steps < MaxColorSteps
    /\ run.kind = "none"
    /\ prev' = editBuffer
    /\ editBuffer' = colorChange(editBuffer, editorState.editMode, editorState.cursorX,
                                 editorState.cursorY, colorMap)
    /\ last' = [op |-> "colorChange", colorMap |-> colorMap, needsSave |-> TRUE]
    /\ steps' = steps + 1
    /\ UNCHANGED <<pcgData, editorState, fresh, file, saved, loads, run, async>>

NextColor == RestoreOp \/ MouseDrawOp \/ CycleEditModeOp \/ ColorChangeOp

SpecColor == InitStore /\ [][NextColor]_vars

(***************************************************************************)
(* C18: COLOR CHANGE is simultaneous: for any colour map m, after          *)
(* colorChange(m) every pixel of the current edit area whose colour was c  *)
(* has colour m[c] (the map is applied once, never chained), and every     *)
(* pixel outside the area's characters is unchanged.                       *)
(***************************************************************************)
\* the character codes of the area the cursor is in
RegionCodes ==
  LET area == CursorArea(editorState.editMode, editorState.cursorX, editorState.cursorY)
  IN {area.charCodes[i] : i \in 1..Len(area.charCodes)}

C18_ColorChangeSimultaneous ==
  last.op = "colorChange" =>
    /\ \A c \in RegionCodes, x \in 0..7, y \in 0..7 :
         getPixel(editBuffer, c, x, y) = last.colorMap[getPixel(prev, c, x, y) + 1]
    /\ \A c \in (0..(PCG_TOTAL_CHARS - 1)) \ RegionCodes : editBuffer[c] = prev[c]

\* the map 1 -> 2, 2 -> 3 on an area that held both colours, next to characters that hold data
C18_Witness ==
  /\ last.op = "colorChange"
  /\ last.colorMap[2] = 2
  /\ last.colorMap[3] = 3
  /\ \E c \in RegionCodes, x \in 0..7, y \in 0..7 :
       getPixel(prev, c, x, y) = 1 /\ getPixel(editBuffer, c, x, y) = 2
  /\ \E c \in RegionCodes, x \in 0..7, y \in 0..7 :
       getPixel(prev, c, x, y) = 2 /\ getPixel(editBuffer, c, x, y) = 3
  /\ \E c \in BufferCodes \ RegionCodes : prev[c] # ZeroChar

\* a map that exchanges colours, applied to the whole 16x16 area
C18_WitnessSwap ==
  /\ last.op = "colorChange"
  /\ last.colorMap[4] = 4
  /\ last.colorMap[5] = 3
  /\ editorState.editMode = "ALL"
  /\ \E c \in RegionCodes, x \in 0..7, y \in 0..7 : getPixel(prev, c, x, y) = 3
  /\ \E c \in RegionCodes, x \in 0..7, y \in 0..7 : getPixel(prev, c, x, y) = 4

(***************************************************************************)
(* LocalStorageService and the autosave of main.ts: scheduleSave captures  *)
(* the state and replaces the pending timer; when the timer fires, save    *)
(* writes the captured state to localStorage.                              *)
(***************************************************************************)
\* createSaveState: copies of both stores and the editor state, taken when it is called
createSaveState(pcg, buf, es) ==
  [pcgData |-> getAllData(pcg), editBuffer |-> getAllData(buf), editorState |-> es]

\* mutant: a timer that is pending is left alone, with the state it was given
scheduleSave_KeepsPending(timeout, state) ==
  IF timeout.pending THEN timeout ELSE [pending |-> TRUE, state |-> state]

\* LocalStorageService.scheduleSave: a pending timer is cleared, the new one holds the state
scheduleSave(timeout, state) == [pending |-> TRUE, state |-> state]

\* the timer after main.ts scheduleSave ran at the end of a handler
Scheduled(timeout, pcg, buf, es) == scheduleSave(timeout, createSaveState(pcg, buf, es))

\* handleCommandResult: scheduleSave only when the command asks for it
AfterCommandResult(needsSave, timeout, pcg, buf, es) ==
  IF needsSave THEN Scheduled(timeout, pcg, buf, es) ELSE timeout

\* the character codes of the base64 digits 0..63: A-Z, a-z, 0-9, '+', '/'
Base64Alphabet ==
  AsSeq([n \in 1..64 |->
    IF n <= 26 THEN 64 + n
    ELSE IF n <= 52 THEN 96 + (n - 26)
    ELSE IF n <= 62 THEN 47 + (n - 52)
    ELSE IF n = 63 THEN 43 ELSE 47])

Base64Digit(v) == Base64Alphabet[v + 1]

\* the value of a base64 character code
Base64Value(c) ==
  IF c >= 65 /\ c <= 90 THEN c - 65
  ELSE IF c >= 97 /\ c <= 122 THEN c - 97 + 26
  ELSE IF c >= 48 /\ c <= 57 THEN c - 48 + 52
  ELSE IF c = 43 THEN 62 ELSE 63

\* uint8ArrayToBase64 (btoa of the bytes) for a length that is a multiple of 3, as the
\* 6144 bytes of a store are: no padding
uint8ArrayToBase64(array) ==
  [i \in 1..((Len(array) \div 3) * 4) |->
    LET g == (i - 1) \div 4
        b1 == array[3 * g + 1]
        b2 == array[3 * g + 2]
        b3 == array[3 * g + 3]
        k == (i - 1) % 4
    IN Base64Digit(CASE k = 0 -> b1 \div 4
                     [] k = 1 -> (b1 % 4) * 16 + (b2 \div 16)
                     [] k = 2 -> (b2 % 16) * 4 + (b3 \div 64)
                     [] OTHER -> b3 % 64)]

\* base64ToUint8Array (atob) of an unpadded text
base64ToUint8Array(base64) ==
  AsSeq([i \in 1..((Len(base64) \div 4) * 3) |->
    LET g == (i - 1) \div 3
        v1 == Base64Value(base64[4 * g + 1])
        v2 == Base64Value(base64[4 * g + 2])
        v3 == Base64Value(base64[4 * g + 3])
        v4 == Base64Value(base64[4 * g + 4])
        k == (i - 1) % 3
    IN CASE k = 0 -> v1 * 4 + (v2 \div 16)
         [] k = 1 -> (v2 % 16) * 16 + (v3 \div 4)
         [] OTHER -> (v3 % 4) * 64 + v4])

\* LocalStorageService.save: the three items written to localStorage
save(state) ==
  [present |-> TRUE,
   pcgData |-> uint8ArrayToBase64(state.pcgData),
   editBuffer |-> uint8ArrayToBase64(state.editBuffer),
   editorState |-> state.editorState]

\* the timer callback: save(state); saveTimeout = null
SaveTimerOp ==
  /\ saveTimeout.pending
  /\ last' = [op |-> "saveTimer", first |-> ~storage.present, changed |-> FALSE,
              needsSave |-> FALSE]
  /\ saveTimeout' = NoTimeout
  /\ UNCHANGED <<pcgData, editBuffer, editorState, fresh, file, saved, steps, loads, run,
                 pendingLoad>>
  /\ prev' = pcgData
  /\ storage' = save(saveTimeout.state)

(***************************************************************************)
(* ImageFormat.loadImage: the file is decoded, drawn on a 128x128 canvas,  *)
(* reduced to the eight colours and written into all 256 characters.       *)
(***************************************************************************)
IMAGE_SIZE == 128

\* the image files a user picks; "broken" cannot be decoded
ImageFiles == {"redDot", "palette", "shades", "broken"}
RedDotX == 77
RedDotY == 42

\* the colour the decoded image has at (x, y)
DecodedPixel(image, x, y) ==
  CASE image = "redDot" -> IF x = RedDotX /\ y = RedDotY THEN <<255, 0, 0>> ELSE <<0, 0, 0>>
    [] image = "palette" -> X1_PALETTE[((x + 3 * y + (x \div 8)) % 8) + 1]
    [] OTHER -> <<(2 * x + y) % 256, (255 + x - y) % 256, (127 + x * y) % 256>>

\* ctx.getImageData(0, 0, 128, 128) after drawImage of a 128x128 image; alpha is 255
getImageData(image) ==
  [width |-> IMAGE_SIZE, height |-> IMAGE_SIZE,
   data |-> [idx \in 0..(IMAGE_SIZE * IMAGE_SIZE * 4 - 1) |->
               IF idx % 4 = 3 THEN 255
               ELSE DecodedPixel(image, (idx \div 4) % IMAGE_SIZE,
                                 (idx \div 4) \div IMAGE_SIZE)[(idx % 4) + 1]]]

\* the branches of loadImage that choose the reduction
ImageColorData(imageData, mode) ==
  IF mode = "none" /\ isExactX1Colors(imageData) THEN reduceColors(imageData, "reduce")
  ELSE IF mode = "none" THEN reduceColors(imageData, "reduce")
  ELSE reduceColors(imageData, mode)

\* mutant: the colour is looked up with row and column exchanged
LoadImagePixel_Transposed(pcg, colorData, k) ==
  LET charCode == k \div 64
      py == (k \div 8) % 8
      px == k % 8
      charX == (charCode % 16) * 8
      charY == (charCode \div 16) * 8
  IN setPixel(pcg, charCode, px, py, colorData[charX + px][charY + py])

\* the body of the loops of loadImage: k = 64*charCode + 8*py + px
LoadImagePixel(pcg, colorData, k) ==
  LET charCode == k \div 64
      py == (k \div 8) % 8
      px == k % 8
      charX == (charCode % 16) * 8
      charY == (charCode \div 16) * 8
  IN setPixel(pcg, charCode, px, py, colorData[charY + py][charX + px])

\* iterations lo..hi-1 of the loops; the first half is carried out before the second starts
RECURSIVE LoadImageRange(_, _, _, _)
LoadImageRange(pcg, colorData, lo, hi) ==
  IF hi <= lo THEN pcg
  ELSE IF hi = lo + 1 THEN LoadImagePixel(pcg, colorData, lo)
  ELSE LET mid == (lo + hi) \div 2
           first == LoadImageRange(pcg, colorData, lo, mid)
       IN IF DOMAIN first = {} THEN first ELSE LoadImageRange(first, colorData, mid, hi)

\* mutant: the handler returns after the first 128 characters
LoadImageLoop_StopsHalfway(pcg, colorData) ==
  LoadImageRange(pcg, colorData, 0, 64 * (PCG_TOTAL_CHARS \div 2))

\* for (charCode = 0; charCode < 256; charCode++): the whole loop runs inside onload
LoadImageLoop(pcg, colorData) == LoadImageRange(pcg, colorData, 0, 64 * PCG_TOTAL_CHARS)

\* the store after img.onload, and the value the promise resolves with
loadImage(pcg, image, mode) ==
  [store |-> LoadImageLoop(pcg, ImageColorData(getImageData(image), mode)),
   ret |-> PCG_TOTAL_CHARS]

(***************************************************************************)
(* The commands of EditorCommands that main.ts runs on input events.  Of   *)
(* the editor state the mode, the cursor and the colour are followed; the  *)
(* direction the cursor advances in stays RIGHT, its initial value, as no  *)
(* event of these sessions changes it.                                     *)
(***************************************************************************)
\* (charX + charY * 16) & 0xFF for the dot (x, y) of the edit area
BufferCharCode(x, y) == ((x \div 8) + (y \div 8) * 16) % 256

\* mutant: the cursor is advanced without the test against the edge
advanceCursor_NoEdgeTest(es) ==
  CASE es.lastDirection = "UP" -> [es EXCEPT !.cursorY = es.cursorY - 1]
    [] es.lastDirection = "DOWN" -> [es EXCEPT !.cursorY = es.cursorY + 1]
    [] es.lastDirection = "LEFT" -> [es EXCEPT !.cursorX = es.cursorX - 1]
    [] OTHER -> [es EXCEPT !.cursorX = es.cursorX + 1]

\* EditorState.advanceCursor
advanceCursor(es) ==
  CASE es.lastDirection = "UP" ->
         IF es.cursorY > 0 THEN [es EXCEPT !.cursorY = es.cursorY - 1] ELSE es
    [] es.lastDirection = "DOWN" ->
         IF es.cursorY < 15 THEN [es EXCEPT !.cursorY = es.cursorY + 1] ELSE es
    [] es.lastDirection = "LEFT" ->
         IF es.cursorX > 0 THEN [es EXCEPT !.cursorX = es.cursorX - 1] ELSE es
    [] OTHER ->
         IF es.cursorX < 15 THEN [es EXCEPT !.cursorX = es.cursorX + 1] ELSE es

\* EditorCommands.drawDot: <<edit buffer, editor state>>
drawDot(buf, es, color) ==
  <<setPixel(buf, BufferCharCode(es.cursorX, es.cursorY), es.cursorX % 8, es.cursorY % 8, color),
    advanceCursor([es EXCEPT !.currentColor = color])>>

\* EditorCommands.toggleDraw: <<edit buffer, editor state>>
toggleDraw(buf, es) ==
  LET code == BufferCharCode(es.cursorX, es.cursorY)
      currentPixelColor == getPixel(buf, code, es.cursorX % 8, es.cursorY % 8)
      newColor == IF currentPixelColor = 0 THEN es.currentColor ELSE 0
  IN <<setPixel(buf, code, es.cursorX % 8, es.cursorY % 8, newColor), advanceCursor(es)>>

\* EditorCommands.mouseDraw: <<edit buffer, editor state>>
mouseDraw(buf, es, dotX, dotY) ==
  <<setPixel(buf, BufferCharCode(dotX, dotY), dotX % 8, dotY % 8, es.currentColor),
    [es EXCEPT !.cursorX = ClampCursor(dotX), !.cursorY = ClampCursor(dotY)]>>

\* mutant: the lower character of a vertical pair is defined next to the upper one
ChrPairs_VerticalStrideOne(es) ==
  LET charX == es.cursorX \div 8
      charY == es.cursorY \div 8
  IN CASE es.editMode = "SEPARATE" -> <<<<0, charX + charY * 16>>>>
       [] es.editMode = "VERTICAL" -> <<<<0, charX>>, <<1, charX + 16>>>>
       [] es.editMode = "HORIZONTAL" -> <<<<0, charY * 16>>, <<1, charY * 16 + 1>>>>
       [] OTHER -> <<<<0, 0>>, <<1, 1>>, <<16, 16>>, <<17, 17>>>>

\* <<target offset, edit buffer code>> of the characters SET CHR. and EDIT CHR. pair up
ChrPairs(es) ==
  LET charX == es.cursorX \div 8
      charY == es.cursorY \div 8
  IN CASE es.editMode = "SEPARATE" -> <<<<0, charX + charY * 16>>>>
       [] es.editMode = "VERTICAL" -> <<<<0, charX>>, <<16, charX + 16>>>>
       [] es.editMode = "HORIZONTAL" -> <<<<0, charY * 16>>, <<1, charY * 16 + 1>>>>
       [] OTHER -> <<<<0, 0>>, <<1, 1>>, <<16, 16>>, <<17, 17>>>>

\* EditorCommands.setChr: the definition store after the first n setCharacter calls
RECURSIVE SetChrCalls(_, _, _, _, _)
SetChrCalls(pcg, buf, pairs, charCode, n) ==
  IF n = 0 THEN pcg
  ELSE setCharacter(SetChrCalls(pcg, buf, pairs, charCode, n - 1),
                    (charCode + pairs[n][1]) % 256, getCharacter(buf, pairs[n][2]))

setChr(pcg, buf, es, charCode) == SetChrCalls(pcg, buf, ChrPairs(es), charCode, Len(ChrPairs(es)))

\* the ROM font of the renderer: 2048 bytes, eight per character
FontData == Pattern(5, 2048)

\* X1Renderer.getFontData
getFontData(charCode) == SubSeq(FontData, (charCode % 256) * 8 + 1, (charCode % 256) * 8 + 8)

\* loadCharacter from the ROM font: the passes lo..hi-1 of its loops, k = 8*y + x
RECURSIVE RomLoadRange(_, _, _, _, _)
RomLoadRange(buf, data, dstBufferCode, lo, hi) ==
  IF hi <= lo THEN buf
  ELSE IF hi = lo + 1
  THEN setPixel(buf, dstBufferCode, lo % 8, lo \div 8,
                IF TestBit(data[(lo \div 8) + 1], PixelMask(lo % 8)) THEN 7 ELSE 0)
  ELSE LET mid == (lo + hi) \div 2
           first == RomLoadRange(buf, data, dstBufferCode, lo, mid)
       IN IF DOMAIN first = {} THEN first ELSE RomLoadRange(first, data, dstBufferCode, mid, hi)

\* loadCharacter(srcCode, dstBufferCode) of loadChr
loadCharacter(pcg, buf, source, srcCode, dstBufferCode) ==
  IF source = "rom" THEN RomLoadRange(buf, getFontData(srcCode), dstBufferCode, 0, 64)
  ELSE setCharacter(buf, dstBufferCode, getCharacter(pcg, srcCode))

\* EditorCommands.loadChr: the edit buffer after the first n loadCharacter calls
RECURSIVE LoadChrCalls(_, _, _, _, _, _)
LoadChrCalls(pcg, buf, pairs, source, charCode, n) ==
  IF n = 0 THEN buf
  ELSE loadCharacter(pcg, LoadChrCalls(pcg, buf, pairs, source, charCode, n - 1), source,
                     (charCode + pairs[n][1]) % 256, pairs[n][2])

loadChr(pcg, buf, es, source, charCode) ==
  LoadChrCalls(pcg, buf, ChrPairs(es), source, charCode, Len(ChrPairs(es)))

\* EditorCommands.clear: the passes lo..hi-1 of its loops, k = 64*i + 8*y + x
RECURSIVE ClearRange(_, _, _, _)
ClearRange(buf, charCodes, lo, hi) ==
  IF hi <= lo THEN buf
  ELSE IF hi = lo + 1
  THEN setPixel(buf, charCodes[(lo \div 64) + 1], lo % 8, (lo \div 8) % 8, 0)
  ELSE LET mid == (lo + hi) \div 2
           first == ClearRange(buf, charCodes, lo, mid)
       IN IF DOMAIN first = {} THEN first ELSE ClearRange(first, charCodes, mid, hi)

clear(buf, es) ==
  LET charCodes == CursorArea(es.editMode, es.cursorX, es.cursorY).charCodes
  IN ClearRange(buf, charCodes, 0, 64 * Len(charCodes))

(***************************************************************************)
(* The handlers of main.ts: an input event runs its command and            *)
(* handleCommandResult; a file load waits for the file and then loads it;  *)
(* the autosave timer fires.  Each handler runs to its end before the next *)
(* callback starts.                                                        *)
(***************************************************************************)
MaxEvents == 2
MaxEventImageLoads == 1

DrawColors == {1, 6}
SetChrCodes == {65, 255}
LoadChrRequests == {<<"rom", 65>>, <<"ram", 65>>}
EventRotations == {"left", "rot180"}
EventColorMaps == {<<0, 2, 3, 3, 4, 5, 6, 7>>, <<7, 6, 5, 4, 3, 2, 1, 0>>}
EventTransfers == {<<65, 66, 66>>, <<66, 65, 0>>}
\* <<bytes of the file, start>>: two characters that fit, and two that do not
EventBinLoads == {<<Pattern(11, 2 * PCG_BYTES_PER_CHAR), 65>>,
                  <<Pattern(11, 2 * PCG_BYTES_PER_CHAR), 255>>}
\* <<image, reduceMode>> of the raster loads
EventImageLoads == {<<"redDot", "none">>}

\* handleInput for an event whose command leaves the stores and the editor state as
\* given and reports needsSave, followed by handleCommandResult
InputEvent(name, pcg, buf, es, needsSave) ==
  /\ steps < MaxEvents
  /\ steps' = steps + 1
  /\ prev' = pcgData
  /\ pcgData' = pcg
  /\ editBuffer' = buf
  /\ editorState' = es
  /\ saveTimeout' = AfterCommandResult(needsSave, saveTimeout, pcgData', editBuffer',
                                       editorState')
  /\ last' = [op |-> name, changed |-> (pcgData' # pcgData \/ editBuffer' # editBuffer),
              needsSave |-> needsSave]
  /\ UNCHANGED <<fresh, file, saved, loads, run, pendingLoad, storage>>

DrawDotEvent ==
  \E color \in DrawColors :
    \E r \in {drawDot(editBuffer, editorState, color)} :
      InputEvent("drawDot", pcgData, r[1], r[2], TRUE)

ToggleDrawEvent ==
  \E r \in {toggleDraw(editBuffer, editorState)} :
    InputEvent("toggleDraw", pcgData, r[1], r[2], TRUE)

MouseDrawEvent ==
  \E dot \in DrawCoords :
    \E r \in {mouseDraw(editBuffer, editorState, dot[1], dot[2])} :
      InputEvent("mouseDraw", pcgData, r[1], r[2], TRUE)

SetChrEvent ==
  \E charCode \in SetChrCodes :
    InputEvent("setChr", setChr(pcgData, editBuffer, editorState, charCode), editBuffer,
               editorState, TRUE)

LoadChrEvent ==
  \E req \in LoadChrRequests :
    InputEvent("loadChr", pcgData, loadChr(pcgData, editBuffer, editorState, req[1], req[2]),
               editorState, TRUE)

RotationEvent ==
  \E kind \in EventRotations :
    InputEvent("rotation", pcgData,
               applyStore(editBuffer, editorState.editMode, editorState.cursorX,
                          editorState.cursorY, kind),
               editorState, ~applyRejects(editorState.editMode, kind))

ClearEvent == InputEvent("clear", pcgData, clear(editBuffer, editorState), editorState, TRUE)

ColorChangeEvent ==
  \E colorMap \in EventColorMaps :
    InputEvent("colorChange", pcgData,
               colorChange(editBuffer, editorState.editMode, editorState.cursorX,
                           editorState.cursorY, colorMap),
               editorState, TRUE)

TransferEvent ==
  \E args \in EventTransfers :
    InputEvent("transfer", transfer(pcgData, args[1], args[2], args[3]), editBuffer,
               editorState, ~transferRejects(args[1], args[2], args[3]))

\* handleModeChange
ModeChangeEvent ==
  InputEvent("modeChange", pcgData, editBuffer,
             [editorState EXCEPT !.editMode = cycleEditMode(editorState.editMode)], TRUE)

\* handleFileLoad for a BIN file, from the continuation after file.arrayBuffer():
\* BinFormat.load, render and scheduleSave, or the catch block when load throws
BinFileLoadEvent ==
  \E req \in EventBinLoads :
    \E r \in {BinLoad(req[1], pcgData, req[2], FALSE)} :
      InputEvent("fileLoad", r.store, editBuffer, editorState, ~r.threw)

\* handleFileLoad for an image up to the await: loadImage has set img.src and the
\* promise is pending
PickImage(jobs, maxLoads) ==
  \E job \in jobs :
    /\ loads < maxLoads
    /\ steps < MaxEvents
    /\ steps' = steps + 1
    /\ loads' = loads + 1
    /\ pendingLoad' = pendingLoad \cup {[id |-> loads, image |-> job[1], reduceMode |-> job[2]]}
    /\ prev' = pcgData
    /\ last' = [op |-> "pickImage", changed |-> FALSE, needsSave |-> FALSE]
    /\ UNCHANGED <<pcgData, editBuffer, editorState, fresh, file, saved, run, storage,
                   saveTimeout>>

PickImageEvent == PickImage(EventImageLoads, MaxEventImageLoads)

\* img.onload and the continuation of handleFileLoad that the resolved promise starts:
\* all pixels are written, the definition area is rendered, the save is scheduled
ImageOnloadOp ==
  \E p \in pendingLoad :
    /\ p.image # "broken"
    /\ \E r \in {loadImage(pcgData, p.image, p.reduceMode)} :
         /\ pcgData' = r.store
         /\ saveTimeout' = Scheduled(saveTimeout, r.store, editBuffer, editorState)
         /\ last' = [op |-> "loadImage", image |-> p.image, reduceMode |-> p.reduceMode,
                     ret |-> r.ret, rejected |-> FALSE,
                     changed |-> (r.store # pcgData), needsSave |-> TRUE]
    /\ prev' = pcgData
    /\ pendingLoad' = pendingLoad \ {p}
    /\ UNCHANGED <<editBuffer, editorState, fresh, file, saved, steps, loads, run, storage>>

\* img.onerror: the promise is rejected and handleFileLoad shows the message
ImageOnerrorOp ==
  \E p \in pendingLoad :
    /\ p.image = "broken"
    /\ prev' = pcgData
    /\ last' = [op |-> "imageError", image |-> p.image, rejected |-> TRUE,
                changed |-> FALSE, needsSave |-> FALSE]
    /\ pendingLoad' = pendingLoad \ {p}
    /\ UNCHANGED <<pcgData, editBuffer, editorState, fresh, file, saved, steps, loads, run,
                   storage, saveTimeout>>

(***************************************************************************)
(* SpecImage: image files are picked and decoded while BIN files are       *)
(* loaded, dots are drawn with the mouse and the autosave timer fires.     *)
(***************************************************************************)
MaxImageLoads == 2

\* <<image, reduceMode>>
ImageJobs == {<<"redDot", "none">>, <<"palette", "none">>, <<"shades", "none">>,
              <<"shades", "dither">>, <<"broken", "none">>}

PickImageOp == PickImage(ImageJobs, MaxImageLoads)

NextImage ==
  \/ PickImageOp
  \/ ImageOnloadOp
  \/ ImageOnerrorOp
  \/ BinFileLoadEvent
  \/ MouseDrawEvent
  \/ SaveTimerOp

SpecImage == InitStore /\ [][NextImage]_vars

(***************************************************************************)
(* C13: loadImage with reduceMode 'none' on a 128x128 image returns 256    *)
(* and redefines all 256 characters: pixel (px, py) of character i is the  *)
(* index got by thresholding the image pixel at                            *)
(* (8*(i mod 16)+px, 8*floor(i/16)+py) at 128 per channel (B bit 0, R bit  *)
(* 1, G bit 2), whether or not the image has palette colours only; an      *)
(* all-black image with one (255,0,0) pixel gives exactly one pixel of     *)
(* index 2 and all others 0.                                               *)
(***************************************************************************)
\* the index of a colour <<r, g, b>> thresholded at 128 per channel
ThresholdIndex(rgb) ==
  (IF rgb[3] >= 128 THEN 1 ELSE 0) + (IF rgb[1] >= 128 THEN 2 ELSE 0)
    + (IF rgb[2] >= 128 THEN 4 ELSE 0)

\* the <<character, px, py>> the red pixel of the all-black image belongs to
RedDotPlace == <<(RedDotY \div 8) * 16 + (RedDotX \div 8), RedDotX % 8, RedDotY % 8>>

C13_ImageLoadNone ==
  (last.op = "loadImage" /\ last.reduceMode = "none") =>
    /\ last.ret = 256
    /\ \A i \in 0..255, px \in 0..7, py \in 0..7 :
         getPixel(pcgData, i, px, py)
           = ThresholdIndex(DecodedPixel(last.image, 8 * (i % 16) + px, 8 * (i \div 16) + py))
    /\ last.image = "redDot" =>
         \A i \in 0..255, px \in 0..7, py \in 0..7 :
           getPixel(pcgData, i, px, py) = IF <<i, px, py>> = RedDotPlace THEN 2 ELSE 0

\* an image with colours off the palette is loaded over a store that held other data
C13_Witness ==
  /\ last.op = "loadImage"
  /\ last.reduceMode = "none"
  /\ last.image = "shades"
  /\ prev[65] # ZeroChar
  /\ pcgData[65] # prev[65]

\* the all-black image with one red pixel is loaded over a store that held data
C13_WitnessRedDot ==
  /\ last.op = "loadImage"
  /\ last.reduceMode = "none"
  /\ last.image = "redDot"
  /\ prev[65] # ZeroChar
  /\ getPixel(pcgData, RedDotPlace[1], RedDotPlace[2], RedDotPlace[3]) = 2

\* an image of palette colours only
C13_WitnessPalette ==
  /\ last.op = "loadImage"
  /\ last.reduceMode = "none"
  /\ last.image = "palette"
  /\ isExactX1Colors(getImageData(last.image))
  /\ ~isExactX1Colors(getImageData("shades"))

(***************************************************************************)
(* C14: a raster load is atomic with respect to the other editor events:   *)
(* if decoding fails the promise is rejected and no byte of the store has  *)
(* changed; if it succeeds all 256 characters are rewritten inside one     *)
(* handler, so that no keyboard, mouse or timer callback observes or       *)
(* persists a store in which only some characters have been rewritten.     *)
(***************************************************************************)
\* the definition store a saved snapshot holds
PersistedStore == base64ToUint8Array(storage.pcgData)

C14_RasterLoadAtomic ==
  /\ last.op = "imageError" => (last.rejected /\ pcgData = prev)
  /\ last.op = "loadImage" =>
       /\ ~last.rejected
       /\ LET colorData == ImageColorData(getImageData(last.image), last.reduceMode)
          IN \A i \in 0..255, px \in 0..7, py \in 0..7 :
               getPixel(pcgData, i, px, py)
                 = colorData[8 * (i \div 16) + py][8 * (i % 16) + px]
  /\ saveTimeout.pending => saveTimeout.state.pcgData = getAllData(pcgData)
  /\ last.op = "saveTimer" => PersistedStore = getAllData(pcgData)

\* the timer persists the store of a finished load while another load is still in flight
C14_Witness ==
  /\ last.op = "saveTimer"
  /\ loads = 2
  /\ steps = 2
  /\ Cardinality(pendingLoad) = 1
  /\ pcgData # NewPCGData
  /\ PersistedStore = getAllData(pcgData)

\* decoding fails for a load that was started over a store holding data
C14_WitnessRejected ==
  /\ last.op = "imageError"
  /\ last.rejected
  /\ prev # NewPCGData
  /\ saveTimeout.pending

\* a dot is drawn between the pick of the file and the end of its decoding
C14_WitnessEventBetween ==
  /\ last.op = "loadImage"
  /\ last.reduceMode = "dither"
  /\ editBuffer # NewPCGData
  /\ loads = 1

(***************************************************************************)
(* SpecApp: a session of input events, file loads and autosave timers.     *)
(* SpecAppLive adds that a pending timer fires: a timer set with           *)
(* window.setTimeout runs once its delay has passed, unless it is cleared. *)
(***************************************************************************)
NextApp ==
  \/ DrawDotEvent
  \/ ToggleDrawEvent
  \/ MouseDrawEvent
  \/ SetChrEvent
  \/ LoadChrEvent
  \/ RotationEvent
  \/ ClearEvent
  \/ ColorChangeEvent
  \/ TransferEvent
  \/ ModeChangeEvent
  \/ BinFileLoadEvent
  \/ PickImageEvent
  \/ ImageOnloadOp
  \/ SaveTimerOp

SpecApp == InitStore /\ [][NextApp]_vars

SpecAppLive == SpecApp /\ WF_vars(SaveTimerOp)

(***************************************************************************)
(* C20: after any input event that changes the definition store or the     *)
(* edit buffer (draw, toggle, mouse draw, SET CHR, EDIT CHR load,          *)
(* rotation, clear, colour change, transfer, file load), if no further     *)
(* input arrives and the pending timer is allowed to fire, local storage   *)
(* eventually holds a snapshot equal to the current contents of both       *)
(* stores; a burst of such events results in one write containing the      *)
(* state after the last of them.                                           *)
(***************************************************************************)
\* what load() would give back for both stores equals what they hold now
StorageCurrent ==
  /\ storage.present
  /\ base64ToUint8Array(storage.pcgData) = getAllData(pcgData)
  /\ base64ToUint8Array(storage.editBuffer) = getAllData(editBuffer)

\* the handlers the claim lists
ChangingEvents ==
  {"drawDot", "toggleDraw", "mouseDraw", "setChr", "loadChr", "rotation", "clear",
   "colorChange", "transfer", "fileLoad", "loadImage"}

\* the write of the timer holds the state after the last event, and leaves no timer behind
WriteIsLatest == last.op = "saveTimer" => (StorageCurrent /\ ~saveTimeout.pending)

\* a handler that changed a store has set the timer, with the stores as it left them
ChangeIsScheduled ==
  (last.op \in ChangingEvents /\ last.changed) =>
    /\ saveTimeout.pending
    /\ saveTimeout.state.pcgData = getAllData(pcgData)
    /\ saveTimeout.state.editBuffer = getAllData(editBuffer)

\* the timer has fired and no handler ran since; WriteIsLatest says what storage then holds
TimerFired == last.op = "saveTimer"

C20_WitnessBurstPending ==
  /\ last.op \in ChangingEvents
  /\ last.changed
  /\ steps = 2
  /\ saveTimeout.pending
  /\ ~storage.present
  /\ prev # pcgData

\* an image finished loading after the last input event, and was saved
C20_WitnessImage ==
  /\ last.op = "saveTimer"
  /\ loads = 1
  /\ pendingLoad = {}
  /\ getPixel(pcgData, RedDotPlace[1], RedDotPlace[2], RedDotPlace[3]) = 2
  /\ StorageCurrent

(***************************************************************************)
(* SpecSetChr: the editor state is restored, drawn on or its mode cycled,  *)
(* and the edit area is defined as characters with SET CHR.                *)
(***************************************************************************)
MaxSetChrSteps == 3

\* the character codes the SET CHR. prompt is answered with
SetChrTargets == {65, 240, 255}

\* main.ts handleInput 'set-chr': EditorCommands.setChr
SetChrOp ==
  \E charCode \in SetChrTargets :
    /\ steps < MaxSetChrSteps
    /\ run.kind = "none"
    /\ prev' = pcgData
    /\ pcgData' = setChr(pcgData, editBuffer, editorState, charCode)
    /\ last' = [op |-> "setChr", charCode |-> charCode, buffer |-> editBuffer,
                needsSave |-> TRUE]
    /\ steps' = steps + 1
    /\ UNCHANGED <<editBuffer, editorState, fresh, file, saved, loads, run, async>>

NextSetChr == RestoreOp \/ MouseDrawOp \/ CycleEditModeOp \/ SetChrOp

SpecSetChr == InitStore /\ [][NextSetChr]_vars

(***************************************************************************)
(* C21: SET CHR defines 1 to 4 characters according to the edit mode:      *)
(* setChr(c) copies edit-buffer slot charX + 16*charY to c in SEPARATE,    *)
(* slots charX and charX + 16 to c and (c + 16) mod 256 in VERTICAL, slots *)
(* 16*charY and 16*charY + 1 to c and (c + 1) mod 256 in HORIZONTAL, and   *)
(* slots 0, 1, 16, 17 to c, c + 1, c + 16, c + 17 (mod 256) in ALL, where  *)
(* (charX, charY) is the cursor quadrant; no other definition character    *)
(* changes and the edit buffer is unchanged.                               *)
(***************************************************************************)
\* the pairs <<defined character, edit-buffer slot>> of SET CHR. c, per edit mode
DefinedFrom(es, c) ==
  LET charX == es.cursorX \div 8
      charY == es.cursorY \div 8
  IN CASE es.editMode = "SEPARATE" -> {<<c, charX + 16 * charY>>}
       [] es.editMode = "VERTICAL" -> {<<c, charX>>, <<(c + 16) % 256, charX + 16>>}
       [] es.editMode = "HORIZONTAL" -> {<<c, 16 * charY>>, <<(c + 1) % 256, 16 * charY + 1>>}
       [] es.editMode = "ALL" ->
            {<<c, 0>>, <<(c + 1) % 256, 1>>, <<(c + 16) % 256, 16>>, <<(c + 17) % 256, 17>>}

C21_SetChrByMode ==
  last.op = "setChr" =>
    LET pairs == DefinedFrom(editorState, last.charCode)
    IN /\ Cardinality(pairs) \in 1..4
       /\ \A p \in pairs : pcgData[p[1]] = last.buffer[p[2]]
       /\ \A k \in 0..(PCG_TOTAL_CHARS - 1) :
            k \notin {p[1] : p \in pairs} => pcgData[k] = prev[k]
       /\ editBuffer = last.buffer

\* the whole area defined at code 255: the four characters wrap to 255, 0, 15 and 16
C21_Witness ==
  /\ last.op = "setChr"
  /\ editorState.editMode = "ALL"
  /\ last.charCode = 255
  /\ Cardinality({editBuffer[0], editBuffer[1], editBuffer[16], editBuffer[17], ZeroChar}) = 5
  /\ pcgData[255] = editBuffer[0]
  /\ pcgData[0] = editBuffer[1]
  /\ pcgData[15] = editBuffer[16]
  /\ pcgData[16] = editBuffer[17]
  /\ \A k \in {255, 0, 15, 16} : prev[k] # pcgData[k]
  /\ prev[1] # ZeroChar

\* the right-hand vertical pair defined at code 240: the lower character wraps to 0
C21_WitnessVertical ==
  /\ last.op = "setChr"
  /\ editorState.editMode = "VERTICAL"
  /\ editorState.cursorX >= 8
  /\ last.charCode = 240
  /\ pcgData[240] = editBuffer[1]
  /\ pcgData[0] = editBuffer[17]
  /\ prev[0] # pcgData[0]

\* the lower-left character alone, and the lower horizontal pair
C21_WitnessQuadrant ==
  /\ last.op = "setChr"
  /\ editorState.editMode \in {"SEPARATE", "HORIZONTAL"}
  /\ editorState.cursorX < 8
  /\ editorState.cursorY >= 8
  /\ pcgData[last.charCode] = editBuffer[16]
  /\ editBuffer[16] # ZeroChar
  /\ prev[last.charCode] # editBuffer[16]

(***************************************************************************)
(* SpecSkip: an ASCII program whose DEFCHR$ lines all match the pattern,   *)
(* some with a hex string that is too short or too long and some naming a  *)
(* code above 255, is loaded from a start code inside or outside 0..255.   *)
(***************************************************************************)
MaxSkipLines == 3

\* hex: the number of hex characters between the quotes; code: the code the line names
SkipDescs ==
  {[hex |-> 48, code |-> 65], [hex |-> 48, code |-> 300],
   [hex |-> 46, code |-> 66], [hex |-> 50, code |-> 67]}
\* the start codes BasFormat.load is called with
SkipStarts == {-1, 0, 254, 256}

\* the i-th line of the program: the 24 bytes CraftData(i), cut or extended
SkipAsciiLine(desc, i) ==
  LET hex == HexString(CraftData(i))
  IN AsciiLine(10 * i, desc.code,
               IF desc.hex <= 48 THEN SubSeq(hex, 1, desc.hex) ELSE hex \o <<52, 49>>)

\* the lines are separated by CR, as saveAscii writes them
SkipAscii(lines) ==
  ConcatRange([i \in 1..Len(lines) |-> SkipAsciiLine(lines[i], i) \o <<13>>],
              1, Len(lines) + 1)

SkipCraftOp ==
  \E n \in 1..MaxSkipLines : \E lines \in [1..n -> SkipDescs] :
    /\ saved.op = "none"
    /\ prev' = pcgData
    /\ last' = [op |-> "pick"]
    /\ file' = SkipAscii(lines)
    /\ saved' = [op |-> "lines", format |-> "ascii", lines |-> lines]
    /\ UNCHANGED <<pcgData, editBuffer, editorState, fresh, steps, loads, run, async>>

\* BasFormat.load of the program into the definition store
SkipLoadOp ==
  \E start \in SkipStarts, mode \in BasModes :
    \E r \in {BasLoad(file, pcgData, start, mode)} :
      /\ loads < MaxLoads
      /\ saved.op = "lines"
      /\ prev' = pcgData
      /\ pcgData' = r.store
      /\ last' = [op |-> "load", target |-> "pcgData", start |-> start, mode |-> mode,
                  threw |-> r.threw, ret |-> r.ret]
      /\ loads' = loads + 1
      /\ UNCHANGED <<editBuffer, editorState, fresh, file, saved, steps, run, async>>

NextSkip == BasFillOp \/ SkipCraftOp \/ SkipLoadOp

SpecSkip == InitStore /\ [][NextSkip]_vars

(***************************************************************************)
(* C22: ASCII load skip rules.  A matching line whose hex string is not    *)
(* exactly 48 characters writes nothing and does not advance the counter   *)
(* of mode 'start'; a matching 48-character line whose resolved target     *)
(* code is outside 0..255 writes nothing but still advances the counter in *)
(* mode 'start'; neither case raises an error nor stops the processing of  *)
(* later lines, and neither is counted in the return value.                *)
(***************************************************************************)
\* the lines with a hex string of 48 characters
FullLines == {i \in 1..Len(saved.lines) : saved.lines[i].hex = 48}

\* the code line i resolves to: the counter has advanced once for every earlier line of
\* 48 characters, written or not, and for no other line
ResolvedTarget(i) ==
  IF last.mode = "original" THEN saved.lines[i].code
  ELSE last.start + Cardinality({j \in FullLines : j < i})

\* the lines that are written: 48 characters and a target in 0..255
WrittenLines == {i \in FullLines : ResolvedTarget(i) \in 0..255}

C22_AsciiSkipRules ==
  (last.op = "load" /\ saved.op = "lines") =>
    /\ ~last.threw
    /\ last.ret = Cardinality(WrittenLines)
    /\ \A c \in 0..(PCG_TOTAL_CHARS - 1) :
         LET writers == {i \in WrittenLines : ResolvedTarget(i) = c}
         IN pcgData[c] = IF writers = {} THEN prev[c]
                         ELSE CraftData(CHOOSE i \in writers : \A j \in writers : j <= i)

\* mode 'start' from -1: the first line resolves to -1 and is skipped, the short line
\* after it is skipped without a count, the third line is written to code 0
C22_Witness ==
  /\ last.op = "load"
  /\ saved.op = "lines"
  /\ last.mode = "start"
  /\ last.start = -1
  /\ Len(saved.lines) = 3
  /\ saved.lines[1].hex = 48
  /\ saved.lines[2].hex = 46
  /\ saved.lines[3].hex = 48
  /\ last.ret = 1
  /\ pcgData[0] = CraftData(3)
  /\ prev[0] # CraftData(3)
  /\ \A c \in 1..255 : pcgData[c] = prev[c]
  /\ prev # NewPCGData

\* mode 'start' from 254: a line of 50 characters between two good lines takes no code
C22_WitnessLong ==
  /\ last.op = "load"
  /\ saved.op = "lines"
  /\ last.mode = "start"
  /\ last.start = 254
  /\ Len(saved.lines) = 3
  /\ saved.lines[2].hex = 50
  /\ last.ret = 2
  /\ pcgData[254] = CraftData(1)
  /\ pcgData[255] = CraftData(3)

\* mode 'original': a line naming code 300 is skipped and the line after it is written
C22_WitnessOriginal ==
  /\ last.op = "load"
  /\ saved.op = "lines"
  /\ last.mode = "original"
  /\ Len(saved.lines) = 2
  /\ saved.lines[1] = [hex |-> 48, code |-> 300]
  /\ saved.lines[2] = [hex |-> 48, code |-> 65]
  /\ last.ret = 1
  /\ pcgData[65] = CraftData(2)
  /\ pcgData[300 % 256] = prev[300 % 256]

(***************************************************************************)
(* SpecDither: a raster that covers the 4x4 threshold matrix at least once *)
(* is reduced by ordered dithering ('dither', and 'retro' for the colours  *)
(* whose contrast and saturation stage is tabulated above).                *)
(***************************************************************************)
\* <<width, height>>
DitherSizes == {<<4, 4>>, <<5, 5>>, <<8, 2>>}
\* what is added to 15 * rank in each channel of a raster that follows the thresholds
NearOffsets == {-1, 0, 1}
\* the colours of the rasters of one colour
FlatColours == RasterColours \cup {<<120, 135, 240>>, <<15, 14, 255>>, <<239, 240, 241>>}

\* the rank of the threshold matrix for the pixel (x, y)
DitherRank(x, y) == DITHER_MATRIX[(y % 4) + 1][(x % 4) + 1]

\* a raster whose pixel (x, y) has the channel values 15 * rank + off[c]: at, just below
\* or just above the dither threshold of its place
NearThresholdImageData(width, height, off) ==
  [width |-> width, height |-> height,
   data |-> [idx \in 0..(width * height * 4 - 1) |->
               IF idx % 4 = 3 THEN 255
               ELSE 15 * DitherRank((idx \div 4) % width, (idx \div 4) \div width)
                      + off[(idx % 4) + 1]]]

PickNearThresholdOp ==
  \E size \in DitherSizes : \E off \in [1..3 -> NearOffsets] :
    /\ saved.op = "none"
    /\ prev' = pcgData
    /\ last' = [op |-> "pick"]
    /\ file' = NearThresholdImageData(size[1], size[2], off)
    /\ saved' = [op |-> "near", tabulated |-> FALSE, off |-> off]
    /\ UNCHANGED <<pcgData, editBuffer, editorState, fresh, steps, loads, run, async>>

PickFlatOp ==
  \E size \in DitherSizes : \E colour \in FlatColours :
    /\ saved.op = "none"
    /\ prev' = pcgData
    /\ last' = [op |-> "pick"]
    /\ file' = RasterImageData(size[1], size[2], [i \in 1..(size[1] * size[2]) |-> colour])
    /\ saved' = [op |-> "flat", tabulated |-> colour \in RasterColours, colour |-> colour]
    /\ UNCHANGED <<pcgData, editBuffer, editorState, fresh, steps, loads, run, async>>

\* reduceColors(imageData, 'dither')
DitherOp ==
  /\ saved.op \in {"near", "flat"}
  /\ last.op = "pick"
  /\ prev' = pcgData
  /\ last' = [op |-> "reduceColors", mode |-> "dither", threw |-> FALSE,
              result |-> reduceColors(file, "dither")]
  /\ UNCHANGED <<pcgData, editBuffer, editorState, fresh, file, saved, steps, loads, run, async>>

\* reduceColors(imageData, 'retro')
RetroOp ==
  /\ saved.op \in {"near", "flat"}
  /\ saved.tabulated
  /\ last.op = "pick"
  /\ prev' = pcgData
  /\ last' = [op |-> "reduceColors", mode |-> "retro", threw |-> FALSE,
              result |-> reduceColors(file, "retro")]
  /\ UNCHANGED <<pcgData, editBuffer, editorState, fresh, file, saved, steps, loads, run, async>>

NextDither == PickNearThresholdOp \/ PickFlatOp \/ DitherOp \/ RetroOp

SpecDither == InitStore /\ [][NextDither]_vars

(***************************************************************************)
(* C23: ordered dither uses one shared threshold per pixel: for the pixel  *)
(* at (x, y) with rank k = matrix[y mod 4][x mod 4] in 1..16, each of the  *)
(* three output bits is 1 exactly when its own channel value v satisfies   *)
(* v >= (k/17)*255, that is 17*v >= 255*k, with the same k for R, G and B, *)
(* and the index is B_bit + 2*R_bit + 4*G_bit; the final stage of 'retro'  *)
(* uses the same scheme with the threshold 28 + (k/17)*200.                *)
(***************************************************************************)
\* 1 when v >= a + (k/17)*b, in whole numbers: 17*v >= 17*a + b*k
ThresholdBit(v, a, b, k) == IF 17 * v >= 17 * a + b * k THEN 1 ELSE 0

\* the index of the three bits, all taken with the rank k
SharedThresholdIndex(rgb, a, b, k) ==
  ThresholdBit(rgb[3], a, b, k) + 2 * ThresholdBit(rgb[1], a, b, k)
    + 4 * ThresholdBit(rgb[2], a, b, k)

\* the channel values the final stage of retro compares
RetroProcessed(rgb) ==
  enhanceSaturation(<<sigmoidalContrast(rgb[1]), sigmoidalContrast(rgb[2]),
                      sigmoidalContrast(rgb[3])>>)

C23_SharedThreshold ==
  (last.op = "reduceColors" /\ saved.op \in {"near", "flat"}) =>
    \A y \in 0..(file.height - 1) : \A x \in 0..(file.width - 1) :
      LET k == DITHER_MATRIX[(y % 4) + 1][(x % 4) + 1]
      IN /\ k \in 1..16
         /\ last.mode = "dither" =>
              last.result[y][x] = SharedThresholdIndex(PixelRGB(file, x, y), 0, 255, k)
         /\ last.mode = "retro" =>
              last.result[y][x]
                = SharedThresholdIndex(RetroProcessed(PixelRGB(file, x, y)), 28, 200, k)

\* a 5x5 raster with red at its threshold, green just below and blue just above: every
\* pixel becomes magenta, also in the fifth column and row where the matrix repeats
C23_Witness ==
  /\ last.op = "reduceColors"
  /\ last.mode = "dither"
  /\ saved.op = "near"
  /\ saved.off = <<0, -1, 1>>
  /\ file.width = 5
  /\ PixelRGB(file, 4, 4) = <<15, 14, 16>>
  /\ PixelRGB(file, 3, 3) = <<90, 89, 91>>
  /\ \A y \in 0..4 : \A x \in 0..4 : last.result[y][x] = 3

\* one colour, dithered: the channels 120, 135, 240 turn on at different places (green is
\* on where the threshold is 135, red where it is 120)
C23_WitnessFlat ==
  /\ last.op = "reduceColors"
  /\ last.mode = "dither"
  /\ saved.op = "flat"
  /\ saved.colour = <<120, 135, 240>>
  /\ last.result[0][0] = 7
  /\ last.result[0][1] = 5
  /\ last.result[1][0] = 1
  /\ last.result[3][1] = 7
  /\ last.result[0][3] = 1

\* retro on one colour: the processed channels 2, 133, 255 against 28 + (k/17)*200
C23_WitnessRetro ==
  /\ last.op = "reduceColors"
  /\ last.mode = "retro"
  /\ saved.op = "flat"
  /\ saved.colour = <<40, 130, 220>>
  /\ RetroProcessed(saved.colour) = <<2, 133, 255>>
  /\ last.result[0][0] = 5
  /\ last.result[0][1] = 1
  /\ last.result[3][1] = 5

(***************************************************************************)
(* SpecEdfs: the loops of edfsMode, one pixel per step.  run.st is the     *)
(* work buffer, the rows finished and the row under way; run.n the number  *)
(* of pixels processed.  The rasters have at most six pixels, so that the  *)
(* buffer values stay exact multiples of 16^-5, as they are in doubles.    *)
(***************************************************************************)
\* <<width, height>>
EdfsSizes == {<<3, 2>>, <<2, 3>>, <<3, 1>>, <<1, 3>>}
EdfsColours == {<<100, 100, 100>>, <<40, 130, 220>>}

\* buffer, result and row before the first pass of the loops
EdfsStart(imageData) ==
  [buffer |-> [y \in 0..(imageData.height - 1) |->
                 [x \in 0..(imageData.width - 1) |->
                    LET c == PixelRGB(imageData, x, y)
                    IN <<c[1] * EdfsUnit, c[2] * EdfsUnit, c[3] * EdfsUnit>>]],
   result |-> <<>>, row |-> <<>>]

\* edfsMode is entered with a raster
EdfsEnterOp ==
  \E size \in EdfsSizes : \E colours \in [1..(size[1] * size[2]) -> EdfsColours] :
    \E imageData \in {RasterImageData(size[1], size[2], colours)} :
      /\ saved.op = "none"
      /\ prev' = pcgData
      /\ last' = [op |-> "edfsEnter"]
      /\ file' = imageData
      /\ saved' = [op |-> "raster"]
      /\ run' = [kind |-> "edfs", n |-> 0, st |-> EdfsStart(imageData)]
      /\ UNCHANGED <<pcgData, editBuffer, editorState, fresh, steps, loads, async>>

\* one pass of the inner loop
EdfsPixelOp ==
  /\ run.kind = "edfs"
  /\ last.op \in {"edfsEnter", "edfsPixel"}
  /\ run.n < file.width * file.height
  /\ prev' = pcgData
  /\ last' = [op |-> "edfsPixel", k |-> run.n, before |-> run.st]
  /\ run' = [run EXCEPT !.n = run.n + 1, !.st = EdfsStep(run.st, file.width, run.n)]
  /\ UNCHANGED <<pcgData, editBuffer, editorState, fresh, file, saved, steps, loads, async>>

\* the loops are over: return result
EdfsReturnOp ==
  /\ run.kind = "edfs"
  /\ last.op \in {"edfsEnter", "edfsPixel"}
  /\ run.n = file.width * file.height
  /\ prev' = pcgData
  /\ last' = [op |-> "reduceColors", mode |-> "edfs", threw |-> FALSE,
              result |-> ZeroBased([y \in 1..Len(run.st.result) |->
                                      ZeroBased(run.st.result[y])])]
  /\ UNCHANGED <<pcgData, editBuffer, editorState, fresh, file, saved, steps, loads, run, async>>

NextEdfs == EdfsEnterOp \/ EdfsPixelOp \/ EdfsReturnOp

SpecEdfs == InitStore /\ [][NextEdfs]_vars

(***************************************************************************)
(* C24: error-diffusion scan order.  edfs processes rows top to bottom,    *)
(* pixels of even rows from x = 0 to W-1 and of odd rows from x = W-1 to   *)
(* 0; the error of the pixel at (x, y) is added only to pixels inside the  *)
(* image that have not yet been quantized, namely (x+d, y), (x-d, y+1),    *)
(* (x, y+1) and (x+d, y+1) with d = +1 on even rows and d = -1 on odd      *)
(* rows; and output cell [y][x] always holds the quantized colour of input *)
(* position (x, y): odd rows are not mirrored in the result.               *)
(***************************************************************************)
\* the place in the scan of the pixel (x, y): rows in turn, odd rows from the right
ScanIndex(x, y) == y * file.width + (IF y % 2 = 0 THEN x ELSE file.width - 1 - x)

\* the index of the colour a buffer cell is quantized to
QuantizedIndex(cell) ==
  (IF cell[3] >= 128 * EdfsUnit THEN 1 ELSE 0) + (IF cell[1] >= 128 * EdfsUnit THEN 2 ELSE 0)
    + (IF cell[2] >= 128 * EdfsUnit THEN 4 ELSE 0)

\* the error of a buffer cell in channel c: its value less the value it is quantized to
QuantizationError(cell, c) ==
  cell[c] - (IF cell[c] >= 128 * EdfsUnit THEN 255 * EdfsUnit ELSE 0)

\* the pass that has just run processed the pixel (x, y) in direction d
PassAt(x, y, d) ==
  LET before == last.before.buffer
      after == run.st.buffer
      targets == {t \in {<<x + d, y>>, <<x - d, y + 1>>, <<x, y + 1>>, <<x + d, y + 1>>} :
                    t[1] \in 0..(file.width - 1) /\ t[2] \in 0..(file.height - 1)}
  IN \* the error goes to the four neighbours, where they exist, and nowhere else
     /\ \A ny \in 0..(file.height - 1) : \A nx \in 0..(file.width - 1) :
          <<nx, ny>> \notin targets => after[ny][nx] = before[ny][nx]
     \* every one of them is still to be quantized
     /\ \A t \in targets : ScanIndex(t[1], t[2]) > last.k
     \* and it is the error of (x, y) that they receive
     /\ \A t \in targets : \A c \in 1..3 :
          QuantizationError(before[y][x], c) # 0 => after[t[2]][t[1]][c] # before[t[2]][t[1]][c]
     /\ <<x + d, y>> \in targets =>
          \A c \in 1..3 :
            16 * (after[y][x + d][c] - before[y][x + d][c])
              = 7 * QuantizationError(before[y][x], c)

C24_SerpentineScan ==
  /\ last.op = "edfsPixel" =>
       \E y \in 0..(file.height - 1) : \E x \in 0..(file.width - 1) :
         /\ ScanIndex(x, y) = last.k
         /\ PassAt(x, y, IF y % 2 = 0 THEN 1 ELSE -1)
  /\ last.op = "reduceColors" =>
       /\ last.result = edfsMode(file)
       /\ \A y \in 0..(file.height - 1) : \A x \in 0..(file.width - 1) :
            last.result[y][x] = QuantizedIndex(run.st.buffer[y][x])

\* the second pixel of an odd row of three was processed: its error went to the left
C24_Witness ==
  /\ last.op = "edfsPixel"
  /\ file.width = 3
  /\ file.height = 2
  /\ last.k = 4
  /\ run.st.buffer[1][0] # last.before.buffer[1][0]
  /\ run.st.buffer[1][2] = last.before.buffer[1][2]
  /\ QuantizedIndex(run.st.buffer[1][2]) # QuantizedIndex(run.st.buffer[1][0])

\* a finished 3x2 raster whose odd row is not its own mirror image
C24_WitnessResult ==
  /\ last.op = "reduceColors"
  /\ file.width = 3
  /\ file.height = 2
  /\ last.result[1][0] # last.result[1][2]
  /\ last.result[0][0] # last.result[0][2]

\* a raster of three rows: the third row runs from the left again
C24_WitnessThirdRow ==
  /\ last.op = "edfsPixel"
  /\ file.width = 2
  /\ file.height = 3
  /\ last.k = 4
  /\ run.st.buffer[2][1] # last.before.buffer[2][1]
  /\ run.st.buffer[1][0] # EdfsStart(file).buffer[1][0]

(***************************************************************************)
(* SpecAlgebra: the editor state is restored, drawn on or its mode cycled, *)
(* and then transforms of different kinds are applied one after another.   *)
(* run.kinds is the sequence applied so far, run.origin the edit buffer    *)
(* before the first of them.                                               *)
(***************************************************************************)
MaxSequence == 4

\* the sequences of transforms that are applied, and their beginnings
AlgebraSequences ==
  {<<"rot90", "rot90", "rot90", "rot90">>, <<"rot180">>,
   <<"right", "left">>, <<"left", "right">>, <<"up", "down">>, <<"down", "up">>}

\* EditorCommands.rotation, as the next transform of a sequence
RotationSeqOp ==
  \E kind \in RotationTypes :
    LET kinds == IF run.kind = "none" THEN <<kind>> ELSE Append(run.kinds, kind)
        rejected == applyRejects(editorState.editMode, kind)
    IN /\ run.kind \in {"none", "seq"}
       /\ Len(kinds) <= MaxSequence
       /\ \E s \in AlgebraSequences : Len(s) >= Len(kinds) /\ SubSeq(s, 1, Len(kinds)) = kinds
       /\ prev' = editBuffer
       /\ editBuffer' = applyStore(editBuffer, editorState.editMode, editorState.cursorX,
                                   editorState.cursorY, kind)
       /\ last' = [op |-> "rotation", kind |-> kind, success |-> ~rejected]
       /\ run' = [kind |-> "seq", n |-> Len(kinds), kinds |-> kinds,
                  origin |-> IF run.kind = "none" THEN editBuffer ELSE run.origin]
       /\ UNCHANGED <<pcgData, editorState, fresh, file, saved, steps, loads, async>>

NextAlgebra == RestoreOp \/ MouseDrawOp \/ CycleEditModeOp \/ RotationSeqOp

SpecAlgebra == InitStore /\ [][NextAlgebra]_vars

(***************************************************************************)
(* C26: rotation algebra.  In the square modes (SEPARATE and ALL),         *)
(* applying rot90 twice gives the same store as applying rot180 once, and  *)
(* applying rot90 four times restores the original store; 'left' undoes    *)
(* 'right' and 'down' undoes 'up' in every mode.                           *)
(***************************************************************************)
SquareMode == editorState.editMode \in {"SEPARATE", "ALL"}

\* the edit buffer a single rot180 makes of the buffer the sequence started from
AfterOneRot180 ==
  applyStore(run.origin, editorState.editMode, editorState.cursorX, editorState.cursorY,
             "rot180")

C26_RotationAlgebra ==
  run.kind = "seq" =>
    /\ (SquareMode /\ run.kinds = <<"rot90", "rot90">>) => editBuffer = AfterOneRot180
    /\ (SquareMode /\ run.kinds = <<"rot180">>) => editBuffer = AfterOneRot180
    /\ (SquareMode /\ run.kinds = <<"rot90", "rot90", "rot90", "rot90">>) =>
         editBuffer = run.origin
    /\ run.kinds \in {<<"right", "left">>, <<"up", "down">>} => editBuffer = run.origin

\* four quarter turns of the whole 16x16 area: changed after one, two and three, and
\* back after the fourth
C26_Witness ==
  /\ run.kind = "seq"
  /\ run.kinds = <<"rot90", "rot90", "rot90", "rot90">>
  /\ editorState.editMode = "ALL"
  /\ editBuffer = run.origin
  /\ prev # run.origin
  /\ \A c \in BufferCodes : run.origin[c] # ZeroChar

\* two quarter turns of one character: a half turn, which is not the identity
C26_WitnessHalfTurn ==
  /\ run.kind = "seq"
  /\ run.kinds = <<"rot90", "rot90">>
  /\ editorState.editMode = "SEPARATE"
  /\ editBuffer = AfterOneRot180
  /\ editBuffer # run.origin
  /\ editBuffer # prev

\* a shift up and the shift down after it, on a vertical pair
C26_WitnessUpDown ==
  /\ run.kind = "seq"
  /\ run.kinds = <<"up", "down">>
  /\ editorState.editMode = "VERTICAL"
  /\ editBuffer = run.origin
  /\ prev # run.origin

\* a shift right and the shift left after it, on a horizontal pair
C26_WitnessRightLeft ==
  /\ run.kind = "seq"
  /\ run.kinds = <<"right", "left">>
  /\ editorState.editMode = "HORIZONTAL"
  /\ editBuffer = run.origin
  /\ prev # run.origin


(***************************************************************************)
(* SpecBinaryLoop: the while loop of loadBinary taken one pass at a time,  *)
(* on programs whose link values are short, overlapping or past the end.   *)
(***************************************************************************)
MaxChunks == 3

\* a well-formed DEFCHR$ line with its link pointer
GoodLine(code) == WithLink(generateLine(BAS_LINE_START, code, HexString(CraftData(code % 7))))

\* pieces of a program: good lines (code 65 and the 16-bit code 300), links of 2 and 1 byte,
\* a line whose link points into its own body, the end marker, a link past the end
LoopChunks ==
  <<GoodLine(65), GoodLine(300), <<2, 0>>, <<1, 0>>,
    <<4, 0>> \o generateLine(BAS_LINE_START, 66, HexString(CraftData(3))),
    PROGRAM_END, <<255, 255>>>>

LoopFiles ==
  UNION {{ConcatRange([i \in 0..(n - 1) |-> LoopChunks[pick[i + 1]]], 0, n) :
            pick \in [1..n -> 1..Len(LoopChunks)]} : n \in 1..MaxChunks}

LoopStarts == {-1, 254}

\* let loadCount = 0; let currentCode = startCode; let offset = 0
LoopStart(pcg, start) ==
  [store |-> pcg, loadCount |-> 0, currentCode |-> start, offset |-> 0, done |-> FALSE]

\* loadBinary is called
LoopEnterOp ==
  \E data \in LoopFiles, start \in LoopStarts, mode \in BasModes :
    /\ saved.op = "none"
    /\ prev' = pcgData
    /\ last' = [op |-> "loopEnter"]
    /\ file' = data
    /\ saved' = [op |-> "bytes", start |-> start, mode |-> mode]
    /\ run' = [kind |-> "loadBinary", n |-> 0, st |-> LoopStart(pcgData, start)]
    /\ UNCHANGED <<pcgData, editBuffer, editorState, fresh, steps, loads, async>>

\* the loop condition is tested and, if it holds, the body runs once
LoopPassOp ==
  /\ run.kind = "loadBinary"
  /\ last.op \in {"loopEnter", "loopPass"}
  /\ ~run.st.done
  /\ prev' = pcgData
  /\ last' = [op |-> "loopPass", before |-> run.st]
  /\ run' = [run EXCEPT !.n = run.n + 1, !.st = BinaryLoadStep(run.st, file, saved.mode)]
  /\ UNCHANGED <<pcgData, editBuffer, editorState, fresh, file, saved, steps, loads, async>>

\* return loadCount; the store written by the passes is the caller's store
LoopReturnOp ==
  /\ run.kind = "loadBinary"
  /\ last.op \in {"loopEnter", "loopPass"}
  /\ run.st.done
  /\ prev' = pcgData
  /\ pcgData' = run.st.store
  /\ last' = [op |-> "loadBinary", threw |-> FALSE, ret |-> run.st.loadCount]
  /\ UNCHANGED <<editBuffer, editorState, fresh, file, saved, steps, loads, run, async>>

NextBinaryLoop == LoopEnterOp \/ LoopPassOp \/ LoopReturnOp

SpecBinaryLoop == InitStore /\ [][NextBinaryLoop]_vars

\* a call that was entered keeps running: the passes and the return are not postponed for ever
SpecBinaryLoopLive == SpecBinaryLoop /\ WF_vars(LoopPassOp) /\ WF_vars(LoopReturnOp)

(***************************************************************************)
(* C27: loadBinary terminates on every byte sequence.  Every pass of the   *)
(* loop either stops (link 0, counter past 255, offset past the end) or    *)
(* moves the offset forward by the non-zero link; a character is written   *)
(* only at a code in 0..255; every call that was entered returns.          *)
(***************************************************************************)
\* the link value the pass that started at st reads
LinkAt(st) == At(file, st.offset) + 256 * At(file, st.offset + 1)

\* the codes whose 24 bytes differ between two stores
ChangedCodes(a, b) == {c \in 0..(PCG_TOTAL_CHARS - 1) : a[c] # b[c]}

\* the code the pass that started at st addresses
PassTarget(st) ==
  LET result == LineResult(st, file)
  IN IF result.ok THEN TargetCode(saved.mode, result.charCode, st.currentCode) ELSE -1

PassIsSound ==
  last.op = "loopPass" =>
    LET b == last.before
        a == run.st
    IN /\ ~b.done
       /\ a.done => \/ ~(b.offset < Len(file) - 1)
                    \/ LinkAt(b) = 0
                    \/ saved.mode = "start" /\ a.currentCode > 255
       /\ ~a.done => /\ LinkAt(b) >= 1
                     /\ a.offset = b.offset + LinkAt(b)
                     /\ a.offset > b.offset
       /\ a.loadCount \in {b.loadCount, b.loadCount + 1}
       /\ a.loadCount = b.loadCount => a.store = b.store
       /\ a.loadCount = b.loadCount + 1 =>
            /\ PassTarget(b) \in 0..255
            /\ ChangedCodes(a.store, b.store) \subseteq {PassTarget(b)}
       /\ run.n <= a.offset + 1
       /\ run.n <= Len(file)

ReturnIsLoadBinary ==
  last.op = "loadBinary" =>
    LET r == loadBinary(file, prev, saved.start, saved.mode)
    IN r.ret = last.ret /\ r.store = pcgData

C27_LoadBinaryTerminates ==
  /\ [](PassIsSound /\ ReturnIsLoadBinary)
  /\ (run.kind = "loadBinary") ~> (last.op = "loadBinary")

\* a program that opens with a 1-byte link and was read to the end
C27_Witness ==
  /\ last.op = "loadBinary"
  /\ SubSeq(file, 1, 2) = <<1, 0>>
  /\ run.n >= 2

\* a link of 2 bytes in front of a good line: the line is read from inside the first "line"
C27_WitnessOverlap ==
  /\ last.op = "loadBinary"
  /\ SubSeq(file, 1, 2) = <<2, 0>>
  /\ last.ret >= 1

\* the counter passed 255 and the loop stopped before the end of the program
C27_WitnessCounter ==
  /\ last.op = "loadBinary"
  /\ saved.mode = "start"
  /\ run.st.currentCode = 256
  /\ run.st.offset < Len(file) - 1

\* a line that carries code 300 was passed over in original mode
C27_WitnessOutOfRange ==
  /\ last.op = "loopPass"
  /\ saved.mode = "original"
  /\ file = GoodLine(300) \o GoodLine(65)
  /\ run.n = 1
  /\ run.st.loadCount = 0
  /\ ~run.st.done


(***************************************************************************)
(* SpecCursor: the cursor operations of EditorState in any order.          *)
(***************************************************************************)
MaxCursorOps == 3

Directions == {"UP", "DOWN", "LEFT", "RIGHT"}

\* arguments of setCursor: inside, at and beyond both edges
CursorArgs == {-1000, -1, 0, 8, 15, 16, 1000}

\* EditorState.moveCursor
moveCursor(es, direction, fast) ==
  LET step == IF fast THEN 2 ELSE 1
      maxPos == 15
      moved == CASE direction = "UP" ->
                      [es EXCEPT !.cursorY = IF es.cursorY - step > 0
                                             THEN es.cursorY - step ELSE 0]
                 [] direction = "DOWN" ->
                      [es EXCEPT !.cursorY = IF es.cursorY + step < maxPos
                                             THEN es.cursorY + step ELSE maxPos]
                 [] direction = "LEFT" ->
                      [es EXCEPT !.cursorX = IF es.cursorX - step > 0
                                             THEN es.cursorX - step ELSE 0]
                 [] direction = "RIGHT" ->
                      [es EXCEPT !.cursorX = IF es.cursorX + step < maxPos
                                             THEN es.cursorX + step ELSE maxPos]
  IN [moved EXCEPT !.lastDirection = direction]

\* EditorState.setCursor
setCursor(es, x, y) == [es EXCEPT !.cursorX = ClampCursor(x), !.cursorY = ClampCursor(y)]

\* EditorState.cursorHome
cursorHome(es) == [es EXCEPT !.cursorX = 0, !.cursorY = 0]

\* EditorState.cycleDirection
cycleDirection(es) ==
  [es EXCEPT !.lastDirection = CASE es.lastDirection = "RIGHT" -> "DOWN"
                                 [] es.lastDirection = "DOWN" -> "LEFT"
                                 [] es.lastDirection = "LEFT" -> "UP"
                                 [] OTHER -> "RIGHT"]

\* EditorState.toSaveData
toSaveData(es) ==
  [editMode |-> es.editMode,
   cursorPosition |-> [x |-> es.cursorX, y |-> es.cursorY],
   currentColor |-> es.currentColor,
   lastDirection |-> es.lastDirection]

\* data.field ?? default
OrDefault(data, field, default) == IF field \in DOMAIN data THEN data[field] ELSE default

\* EditorState.fromSaveData: the values of data are taken as they are
fromSaveData(es, data) ==
  [editMode |-> OrDefault(data, "editMode", "ALL"),
   cursorX |-> IF "cursorPosition" \in DOMAIN data
               THEN OrDefault(data.cursorPosition, "x", 0) ELSE 0,
   cursorY |-> IF "cursorPosition" \in DOMAIN data
               THEN OrDefault(data.cursorPosition, "y", 0) ELSE 0,
   currentColor |-> OrDefault(data, "currentColor", 7),
   lastDirection |-> OrDefault(data, "lastDirection", "RIGHT")]

MoveCursorOp ==
  \E direction \in Directions, fast \in BOOLEAN :
    /\ steps < MaxCursorOps
    /\ editorState' = moveCursor(editorState, direction, fast)
    /\ last' = [op |-> "moveCursor", direction |-> direction, fast |-> fast]
    /\ steps' = steps + 1
    /\ UNCHANGED <<pcgData, editBuffer, fresh, prev, file, saved, loads, run, async>>

SetCursorOp ==
  \E x \in CursorArgs, y \in CursorArgs :
    /\ steps < MaxCursorOps
    /\ editorState' = setCursor(editorState, x, y)
    /\ last' = [op |-> "setCursor", x |-> x, y |-> y]
    /\ steps' = steps + 1
    /\ UNCHANGED <<pcgData, editBuffer, fresh, prev, file, saved, loads, run, async>>

CursorHomeOp ==
  /\ steps < MaxCursorOps
  /\ editorState' = cursorHome(editorState)
  /\ last' = [op |-> "cursorHome"]
  /\ steps' = steps + 1
  /\ UNCHANGED <<pcgData, editBuffer, fresh, prev, file, saved, loads, run, async>>

AdvanceCursorOp ==
  /\ steps < MaxCursorOps
  /\ editorState' = advanceCursor(editorState)
  /\ last' = [op |-> "advanceCursor"]
  /\ steps' = steps + 1
  /\ UNCHANGED <<pcgData, editBuffer, fresh, prev, file, saved, loads, run, async>>

CycleDirectionOp ==
  /\ steps < MaxCursorOps
  /\ editorState' = cycleDirection(editorState)
  /\ last' = [op |-> "cycleDirection"]
  /\ steps' = steps + 1
  /\ UNCHANGED <<pcgData, editBuffer, fresh, prev, file, saved, loads, run, async>>

CursorCycleEditModeOp ==
  /\ steps < MaxCursorOps
  /\ editorState' = [editorState EXCEPT !.editMode = cycleEditMode(editorState.editMode)]
  /\ last' = [op |-> "cycleEditMode"]
  /\ steps' = steps + 1
  /\ UNCHANGED <<pcgData, editBuffer, fresh, prev, file, saved, loads, run, async>>

\* the state is serialised; the data is kept for a later fromSaveData
ToSaveDataOp ==
  /\ steps < MaxCursorOps
  /\ saved' = [op |-> "saveData", data |-> toSaveData(editorState)]
  /\ last' = [op |-> "toSaveData"]
  /\ steps' = steps + 1
  /\ UNCHANGED <<pcgData, editBuffer, editorState, fresh, prev, file, loads, run, async>>

FromSaveDataOp ==
  /\ steps < MaxCursorOps
  /\ saved.op = "saveData"
  /\ editorState' = fromSaveData(editorState, saved.data)
  /\ last' = [op |-> "fromSaveData"]
  /\ steps' = steps + 1
  /\ UNCHANGED <<pcgData, editBuffer, fresh, prev, file, saved, loads, run, async>>

NextCursor ==
  \/ MoveCursorOp
  \/ SetCursorOp
  \/ CursorHomeOp
  \/ AdvanceCursorOp
  \/ CycleDirectionOp
  \/ CursorCycleEditModeOp
  \/ ToSaveDataOp
  \/ FromSaveDataOp

SpecCursor == InitStore /\ [][NextCursor]_vars

(***************************************************************************)
(* C28: cursor invariant.  After any sequence of moveCursor, setCursor,    *)
(* cursorHome, advanceCursor, cycleDirection, cycleEditMode and            *)
(* fromSaveData of data made by toSaveData, cursorX and cursorY are        *)
(* integers in 0..15; a move at an edge stays at the edge.                 *)
(***************************************************************************)
CursorInRange == editorState.cursorX \in 0..15 /\ editorState.cursorY \in 0..15

\* where a move of the given size in the given direction ends when it clamps
Clamped(v, delta) == IF v + delta < 0 THEN 0 ELSE IF v + delta > 15 THEN 15 ELSE v + delta

DeltaX(direction, step) ==
  IF direction = "LEFT" THEN -step ELSE IF direction = "RIGHT" THEN step ELSE 0

DeltaY(direction, step) ==
  IF direction = "UP" THEN -step ELSE IF direction = "DOWN" THEN step ELSE 0

MovesClamp ==
  /\ last'.op = "moveCursor" =>
       LET step == IF last'.fast THEN 2 ELSE 1
       IN /\ editorState'.cursorX = Clamped(editorState.cursorX, DeltaX(last'.direction, step))
          /\ editorState'.cursorY = Clamped(editorState.cursorY, DeltaY(last'.direction, step))
  /\ last'.op = "advanceCursor" =>
       /\ editorState'.cursorX = Clamped(editorState.cursorX, DeltaX(editorState.lastDirection, 1))
       /\ editorState'.cursorY = Clamped(editorState.cursorY, DeltaY(editorState.lastDirection, 1))
  /\ last'.op = "setCursor" =>
       /\ editorState'.cursorX = Clamped(last'.x, 0)
       /\ editorState'.cursorY = Clamped(last'.y, 0)
  /\ last'.op \in {"cycleDirection", "cycleEditMode", "toSaveData"} =>
       /\ editorState'.cursorX = editorState.cursorX
       /\ editorState'.cursorY = editorState.cursorY
  /\ last'.op = "fromSaveData" =>
       /\ editorState'.cursorX = saved.data.cursorPosition.x
       /\ editorState'.cursorY = saved.data.cursorPosition.y
  /\ last'.op = "cursorHome" => editorState'.cursorX = 0 /\ editorState'.cursorY = 0

C28_CursorInvariant == [](CursorInRange) /\ [][MovesClamp]_vars

\* a fast move to the right from the right edge: the cursor stays at 15
C28_Witness ==
  /\ last.op = "moveCursor"
  /\ last.direction = "RIGHT"
  /\ last.fast
  /\ editorState.cursorX = 15
  /\ steps = 2

\* the saved cursor came back after the cursor had been moved away
C28_WitnessRestored ==
  /\ last.op = "fromSaveData"
  /\ editorState.cursorX = 15
  /\ editorState.cursorY = 15
  /\ steps = 3

\* advanceCursor upward at the top edge
C28_WitnessAdvanceUp ==
  /\ last.op = "advanceCursor"
  /\ editorState.lastDirection = "UP"
  /\ editorState.cursorY = 0
  /\ steps = 3


(***************************************************************************)
(* SpecDialog: the dialogs opened from edit mode.  The state of the input  *)
(* layer is the input mode (InputHandler.mode), the visible panel and the  *)
(* prompt callbacks of KeyboardInputHandler and InputPanelManager; emitted *)
(* lists the events emitted since the dialog was opened.  A key pressed in *)
(* a focused field reaches the field's own listener; the listener on       *)
(* window returns at hasActiveInput() for it.                              *)
(***************************************************************************)
MaxDialogs == 2

\* the value of a prompt that was left with Escape (null); no string holds this character
Null == <<Undefined>>

\* the result of parseInt when no digit was read: NaN fails every range test of the callers
NotANumber == -(16 ^ 7)
IsNaN(v) == v = NotANumber

\* value.trim() === ''
IsBlank(str) == \A i \in 1..Len(str) : IsSpace(str[i])

\* the position of the first character of str at or after p that is not white space
RECURSIVE SkipSpaces(_, _)
SkipSpaces(str, p) ==
  IF p <= Len(str) /\ IsSpace(str[p]) THEN SkipSpaces(str, p + 1) ELSE p

\* the digits of str from p on, read in the radix until the first other character
RECURSIVE ParseDigits(_, _, _, _, _)
ParseDigits(str, p, radix, acc, any) ==
  IF p <= Len(str) /\ (IF radix = 16 THEN IsHex(str[p]) ELSE IsDigit(str[p]))
  THEN ParseDigits(str, p + 1, radix, acc * radix + HexValue(str[p]), TRUE)
  ELSE IF any THEN acc ELSE NotANumber

\* parseInt(str, radix) for radix 10 and 16: white space, sign, 0x for radix 16, digits
ParseInt(str, radix) ==
  LET p0 == SkipSpaces(str, 1)
      signed == p0 <= Len(str) /\ str[p0] \in {43, 45}
      negative == signed /\ str[p0] = 45
      p1 == IF signed THEN p0 + 1 ELSE p0
      prefixed == radix = 16 /\ p1 + 1 <= Len(str) /\ str[p1] = 48 /\ str[p1 + 1] \in {88, 120}
      p2 == IF prefixed THEN p1 + 2 ELSE p1
      n == ParseDigits(str, p2, radix, 0, FALSE)
  IN IF IsNaN(n) THEN n ELSE IF negative THEN -n ELSE n

NoCallback == [kind |-> "none", arg |-> "none"]

\* the input layer before a dialog is opened
NewDialog(name) ==
  [kind |-> "dialog", name |-> name, mode |-> "edit", panel |-> "none",
   keyboardCallback |-> NoCallback, panelCallback |-> NoCallback, emitted |-> <<>>]

Emit(d, type, data) == [d EXCEPT !.emitted = Append(@, [type |-> type, data |-> data])]

\* InputPanelManager.hideAllPanels
hideAllPanels(d) == [d EXCEPT !.panel = "none"]

\* InputPanelManager.showInputUI
showInputUI(d, callback) ==
  [hideAllPanels(d) EXCEPT !.panelCallback = callback, !.panel = "input"]

\* KeyboardInputHandler.startCharCodeInput
startCharCodeInput(d, mode) ==
  LET callback == [kind |-> "charCode", arg |-> mode]
  IN showInputUI([d EXCEPT !.mode = mode, !.keyboardCallback = callback], callback)

\* KeyboardInputHandler.startEditChrInput
startEditChrInput(d) ==
  LET callback == [kind |-> "source", arg |-> "none"]
  IN showInputUI([d EXCEPT !.mode = "editchr", !.keyboardCallback = callback], callback)

\* startRotationInput, startTransferInput, startProgrammingInput, startColorChangeInput,
\* startClearInput: setMode('menu') and the panel is shown
startMenuInput(d, panel) == [hideAllPanels([d EXCEPT !.mode = "menu"]) EXCEPT !.panel = panel]

\* the callback startCharCodeInput registers
CharCodeCallback(d, mode, value) ==
  LET closed == [d EXCEPT !.mode = "edit", !.keyboardCallback = NoCallback]
      charCode == ParseInt(value, 16)
  IN IF value # Null /\ ~IsBlank(value)
     THEN IF ~IsNaN(charCode) /\ charCode >= 0 /\ charCode <= 255
          THEN IF mode = "editchr" THEN Emit(closed, "edit-chr", <<charCode>>)
               ELSE Emit(closed, "set-chr", <<charCode>>)
          ELSE closed
     ELSE Emit(closed, "cancel", <<>>)

\* the callback of the second step of startEditChrInput
EditChrCodeCallback(d, source, charCodeInput) ==
  LET closed == [d EXCEPT !.mode = "edit", !.keyboardCallback = NoCallback]
      charCode == ParseInt(charCodeInput, 16)
  IN IF charCodeInput = Null \/ IsBlank(charCodeInput) THEN Emit(closed, "cancel", <<>>)
     ELSE IF IsNaN(charCode) \/ charCode < 0 \/ charCode > 255
     THEN Emit(closed, "cancel", <<>>)
     ELSE Emit(closed, "load-chr", <<source, charCode>>)

\* the callback of the first step of startEditChrInput
EditChrSourceCallback(d, sourceInput) ==
  LET closed == [d EXCEPT !.mode = "edit", !.keyboardCallback = NoCallback]
      sourceNum == ParseInt(sourceInput, 10)
      source == IF sourceNum = 0 THEN "rom" ELSE "ram"
      callback == [kind |-> "code", arg |-> source]
  IN IF sourceInput = Null \/ IsBlank(sourceInput) THEN Emit(closed, "cancel", <<>>)
     ELSE IF sourceNum # 0 /\ sourceNum # 1 THEN Emit(closed, "cancel", <<>>)
     ELSE showInputUI([d EXCEPT !.keyboardCallback = callback], callback)

\* callback(value)
CallPrompt(d, callback, value) ==
  CASE callback.kind = "charCode" -> CharCodeCallback(d, callback.arg, value)
    [] callback.kind = "source" -> EditChrSourceCallback(d, value)
    [] callback.kind = "code" -> EditChrCodeCallback(d, callback.arg, value)

\* InputPanelManager.completeInput
completeInput(d, value) ==
  LET hidden == hideAllPanels(d)
  IN IF hidden.panelCallback # NoCallback
     THEN CallPrompt([hidden EXCEPT !.panelCallback = NoCallback], hidden.panelCallback, value)
     ELSE hidden

\* InputPanelManager.completeRotation
completeRotation(d, value) ==
  LET closed == [hideAllPanels(d) EXCEPT !.mode = "edit"]
      num == ParseInt(value, 10)
      rotationType == getRotationTypeFromNumber(num)
  IN IF value = Null \/ IsBlank(value) THEN Emit(closed, "cancel", <<>>)
     \* if (rotationType): getRotationTypeFromNumber is null exactly outside 0..7
     ELSE IF num >= 0 /\ num <= 7 THEN Emit(closed, "rotation", <<rotationType>>)
     ELSE Emit(closed, "cancel", <<>>)

\* InputPanelManager.completeTransfer
completeTransfer(d, startVal, endVal, targetVal) ==
  LET closed == [hideAllPanels(d) EXCEPT !.mode = "edit"]
      start == ParseInt(startVal, 16)
      end == ParseInt(endVal, 16)
      target == ParseInt(targetVal, 16)
  IN IF startVal = <<>> \/ endVal = <<>> \/ targetVal = <<>> THEN Emit(closed, "cancel", <<>>)
     ELSE IF \/ IsNaN(start) \/ IsNaN(end) \/ IsNaN(target)
             \/ start < 0 \/ start > 255 \/ end < 0 \/ end > 255
             \/ target < 0 \/ target > 255
     THEN Emit(closed, "cancel", <<>>)
     ELSE Emit(closed, "transfer", <<start, end, target>>)

\* cancelTransfer, cancelClear, cancelColorChange, cancelProgramming
cancelPanel(d) == Emit([hideAllPanels(d) EXCEPT !.mode = "edit"], "cancel", <<>>)

\* InputPanelManager.completeClear
completeClear(d) == Emit([hideAllPanels(d) EXCEPT !.mode = "edit"], "clear", <<>>)

\* InputPanelManager.completeColorChange: inputs are the 8 field values
completeColorChange(d, inputs) ==
  LET colorMap == [i \in 1..8 |->
                     LET text == IF inputs[i] = <<>> THEN <<48 + i - 1>> ELSE inputs[i]
                         val == ParseInt(text, 10)
                     IN IF IsNaN(val) \/ val < 0 \/ val > 7 THEN i - 1 ELSE val]
  IN Emit([hideAllPanels(d) EXCEPT !.mode = "edit"], "color-change", <<colorMap>>)

\* InputPanelManager.executeProgramming with the default format and radio buttons
executeProgramming(d, mode, startField, endField) ==
  LET startVal == IF startField = <<>> THEN <<48, 48>> ELSE startField
      endVal == IF endField = <<>> THEN <<70, 70>> ELSE endField
      start == ParseInt(startVal, 16)
      end == ParseInt(endVal, 16)
      closed == [hideAllPanels(d) EXCEPT !.mode = "edit"]
  IN IF IsNaN(start) \/ IsNaN(end) \/ start < 0 \/ start > 255 \/ end < 0 \/ end > 255
     THEN d
     ELSE IF mode = "save" THEN Emit(closed, "file-save", <<"png", start, end, "asc">>)
     ELSE Emit(closed, "file-load", <<"png", start, end, "start", "none">>)


\* what is typed into a field: nothing, blanks, hexadecimal and decimal numbers inside and
\* outside the ranges, text that is no number, a number followed by other text
InputValues ==
  {<<>>, <<32>>, <<52, 49>>, <<70, 70>>, <<49, 48, 48>>, <<90, 90>>, <<48>>, <<49>>,
   <<55>>, <<56>>, <<45, 49>>, <<49, 71>>}

TransferValues == {<<>>, <<52, 49>>, <<49, 48, 48>>, <<90, 90>>}

\* the 8 fields as showColorChangeUI fills them, one of them overtyped
ColorInputs ==
  {[i \in 1..8 |-> IF i = k THEN v ELSE <<48 + i - 1>>] :
     k \in {1, 8}, v \in {<<>>, <<51>>, <<57>>, <<90, 90>>}}

DialogNames ==
  {"SET CHR", "EDIT CHR", "ROTATION", "TRANSFER", "COLOR CHANGE", "CLR", "PROGRAMMING"}

\* the input layer is idle: edit mode and no panel
DialogIdle == run.kind = "none" \/ (run.kind = "dialog" /\ run.mode = "edit" /\ run.panel = "none")

\* handleKeyDown -> handleEditMode: a key that opens a dialog
OpenDialogOp ==
  \E name \in DialogNames :
    /\ steps < MaxDialogs
    /\ DialogIdle
    /\ run' = CASE name = "SET CHR" -> startCharCodeInput(NewDialog(name), "setchr")
                [] name = "EDIT CHR" -> startEditChrInput(NewDialog(name))
                [] name = "ROTATION" -> startMenuInput(NewDialog(name), "rotation")
                [] name = "TRANSFER" -> startMenuInput(NewDialog(name), "transfer")
                [] name = "COLOR CHANGE" -> startMenuInput(NewDialog(name), "colorChange")
                [] name = "CLR" -> startMenuInput(NewDialog(name), "clear")
                [] name = "PROGRAMMING" -> startMenuInput(NewDialog(name), "programming")
    /\ last' = [op |-> "open", name |-> name]
    /\ steps' = steps + 1
    /\ UNCHANGED <<pcgData, editBuffer, editorState, fresh, prev, file, saved, loads, async>>

\* keydown listener of the input field: Enter with the field's value, or Escape
InputFieldKeyOp ==
  \E value \in InputValues \cup {Null} :
    /\ run.kind = "dialog"
    /\ run.panel = "input"
    /\ run' = completeInput(run, value)
    /\ last' = [op |-> "inputKey", value |-> value, step |-> run.panelCallback.kind,
                source |-> run.panelCallback.arg]
    /\ UNCHANGED <<pcgData, editBuffer, editorState, fresh, prev, file, saved, steps, loads,
                   async>>

\* keydown listener of the rotation field
RotationFieldKeyOp ==
  \E value \in InputValues \cup {Null} :
    /\ run.kind = "dialog"
    /\ run.panel = "rotation"
    /\ run' = completeRotation(run, value)
    /\ last' = [op |-> "rotationKey", value |-> value]
    /\ UNCHANGED <<pcgData, editBuffer, editorState, fresh, prev, file, saved, steps, loads,
                   async>>

\* keydown listener of the three transfer fields
TransferFieldKeyOp ==
  \E key \in {"Enter", "Escape"}, startVal \in TransferValues, endVal \in TransferValues,
     targetVal \in TransferValues :
    /\ run.kind = "dialog"
    /\ run.panel = "transfer"
    /\ run' = IF key = "Enter" THEN completeTransfer(run, startVal, endVal, targetVal)
              ELSE cancelPanel(run)
    /\ last' = [op |-> "transferKey", key |-> key,
                values |-> <<startVal, endVal, targetVal>>]
    /\ UNCHANGED <<pcgData, editBuffer, editorState, fresh, prev, file, saved, steps, loads,
                   async>>

\* keydown listener of the colour fields
ColorFieldKeyOp ==
  \E key \in {"Enter", "Escape"}, inputs \in ColorInputs :
    /\ run.kind = "dialog"
    /\ run.panel = "colorChange"
    /\ run' = IF key = "Enter" THEN completeColorChange(run, inputs) ELSE cancelPanel(run)
    /\ last' = [op |-> "colorKey", key |-> key, inputs |-> inputs]
    /\ UNCHANGED <<pcgData, editBuffer, editorState, fresh, prev, file, saved, steps, loads,
                   async>>

\* handleKeyDown on window while the CLR or the PROGRAMMING panel is visible
PanelKeyOp ==
  \E key \in {"Enter", "Escape", "KeyA"} :
    /\ run.kind = "dialog"
    /\ run.panel \in {"clear", "programming"}
    /\ run' = IF run.panel = "clear"
              THEN IF key = "Enter" THEN completeClear(run)
                   ELSE IF key = "Escape" THEN cancelPanel(run) ELSE run
              ELSE IF key = "Escape" THEN cancelPanel(run) ELSE run
    /\ last' = [op |-> "panelKey", key |-> key]
    /\ UNCHANGED <<pcgData, editBuffer, editorState, fresh, prev, file, saved, steps, loads,
                   async>>

\* click on EXEC or CANCEL of the PROGRAMMING panel
ProgrammingButtonOp ==
  \E button \in {"exec", "cancel"}, mode \in {"save", "load"},
     startField \in TransferValues, endField \in TransferValues :
    /\ run.kind = "dialog"
    /\ run.panel = "programming"
    /\ run' = IF button = "exec" THEN executeProgramming(run, mode, startField, endField)
              ELSE cancelPanel(run)
    /\ last' = [op |-> "programmingButton", button |-> button, mode |-> mode,
                values |-> <<startField, endField>>]
    /\ UNCHANGED <<pcgData, editBuffer, editorState, fresh, prev, file, saved, steps, loads,
                   async>>

NextDialog ==
  \/ OpenDialogOp
  \/ InputFieldKeyOp
  \/ RotationFieldKeyOp
  \/ TransferFieldKeyOp
  \/ ColorFieldKeyOp
  \/ PanelKeyOp
  \/ ProgrammingButtonOp

SpecDialog == InitStore /\ [][NextDialog]_vars


(***************************************************************************)
(* C29: dialog protocol.  Every dialog opened from edit mode that closes   *)
(* leaves the input mode at 'edit' and has emitted exactly one event: the  *)
(* command event when the entered values are valid, 'cancel' otherwise     *)
(* (empty input, Escape, unparsable or out-of-range values).               *)
(***************************************************************************)
\* the dialog was opened and its panel is gone
DialogClosed == run.kind = "dialog" /\ run.panel = "none"

\* a field value that is a number of the radix within lo..hi
ValidNumber(value, radix, lo, hi) ==
  /\ value # Null
  /\ ~IsBlank(value)
  /\ ~IsNaN(ParseInt(value, radix))
  /\ ParseInt(value, radix) >= lo
  /\ ParseInt(value, radix) <= hi

\* the values the closing key or button came with are valid for the dialog
EnteredValid ==
  CASE last.op = "inputKey" ->
         IF last.step = "source" THEN FALSE ELSE ValidNumber(last.value, 16, 0, 255)
    [] last.op = "rotationKey" -> ValidNumber(last.value, 10, 0, 7)
    [] last.op = "transferKey" ->
         last.key = "Enter" /\ \A i \in 1..3 : ValidNumber(last.values[i], 16, 0, 255)
    [] last.op = "colorKey" ->
         last.key = "Enter" /\ \A i \in 1..8 : ValidNumber(last.inputs[i], 10, 0, 7)
    [] last.op = "panelKey" -> last.key = "Enter"
    [] last.op = "programmingButton" -> last.button = "exec"
    [] OTHER -> FALSE

\* the type of the command event of the dialog
CommandType ==
  CASE run.name = "SET CHR" -> {"set-chr"}
    [] run.name = "EDIT CHR" -> {"load-chr"}
    [] run.name = "ROTATION" -> {"rotation"}
    [] run.name = "TRANSFER" -> {"transfer"}
    [] run.name = "COLOR CHANGE" -> {"color-change"}
    [] run.name = "CLR" -> {"clear"}
    [] run.name = "PROGRAMMING" -> {"file-save", "file-load"}

C29_DialogProtocol ==
  DialogClosed =>
    /\ run.mode = "edit"
    /\ Len(run.emitted) = 1
    /\ IF EnteredValid THEN run.emitted[1].type \in CommandType
       ELSE run.emitted[1].type = "cancel"

\* SET CHR was closed with Enter on "ZZ": the mode is 'edit' and no event was emitted
C29_SetChrSilent ==
  /\ DialogClosed
  /\ run.name = "SET CHR"
  /\ last.op = "inputKey"
  /\ last.value = <<90, 90>>
  /\ run.mode = "edit"
  /\ run.emitted = <<>>

\* SET CHR was closed with Enter on "100" (256): no event either
C29_SetChrOutOfRangeSilent ==
  /\ DialogClosed
  /\ run.name = "SET CHR"
  /\ last.op = "inputKey"
  /\ last.value = <<49, 48, 48>>
  /\ run.emitted = <<>>

\* COLOR CHANGE was closed with Enter while field 7 held "9": the command is emitted
\* with entry 7 left at 7
C29_ColorChangeLenient ==
  /\ DialogClosed
  /\ run.name = "COLOR CHANGE"
  /\ last.op = "colorKey"
  /\ last.key = "Enter"
  /\ last.inputs[8] = <<57>>
  /\ Len(run.emitted) = 1
  /\ run.emitted[1].type = "color-change"
  /\ run.emitted[1].data[1][8] = 7

\* SET CHR closed on a value that is not blank and not a code
SetChrRejected ==
  /\ run.name = "SET CHR"
  /\ last.op = "inputKey"
  /\ last.value # Null
  /\ ~IsBlank(last.value)
  /\ ~ValidNumber(last.value, 16, 0, 255)

\* COLOR CHANGE closed with Enter
ColorChangeEntered == run.name = "COLOR CHANGE" /\ last.op = "colorKey" /\ last.key = "Enter"

\* the protocol holds for every other way a dialog closes; a rejected SET CHR emits
\* nothing, and COLOR CHANGE with Enter always emits its command
C29_ProtocolElsewhere ==
  DialogClosed =>
    /\ run.mode = "edit"
    /\ IF SetChrRejected THEN run.emitted = <<>>
       ELSE /\ Len(run.emitted) = 1
            /\ IF EnteredValid \/ ColorChangeEntered
               THEN run.emitted[1].type \in CommandType
               ELSE run.emitted[1].type = "cancel"

\* EDIT CHR went through both prompts and emitted load-chr
C29_WitnessEditChr ==
  /\ DialogClosed
  /\ run.name = "EDIT CHR"
  /\ run.emitted = <<[type |-> "load-chr", data |-> <<"ram", 65>>]>>

\* EDIT CHR was cancelled by an unparsable code in its second prompt
C29_WitnessEditChrCancel ==
  /\ DialogClosed
  /\ run.name = "EDIT CHR"
  /\ last.op = "inputKey"
  /\ last.step = "code"
  /\ last.value = <<90, 90>>
  /\ run.emitted = <<[type |-> "cancel", data |-> <<>>]>>


(***************************************************************************)
(* SpecPlane: getPlaneRow and setPlaneRow with arguments inside and        *)
(* outside the documented ranges, on empty and filled stores.              *)
(***************************************************************************)
PlaneCodes == {-1, 65}
PlaneArgs == {-1, 0, 2, 3, 6}
PlaneRows == {0, 15}
PlaneValues == {255, 257}

\* the store with every byte of every character but one changed
OthersChanged(data, code) ==
  [c \in 0..(PCG_TOTAL_CHARS - 1) |->
     IF c = code % 256 THEN data[c]
     ELSE AsSeq([j \in 1..PCG_BYTES_PER_CHAR |-> (data[c][j] + 1) % 256])]

\* getPlaneRow is called; it is called again on a store that differs in all other characters
GetPlaneRowOp ==
  \E code \in PlaneCodes, plane \in PlaneArgs, row \in PlaneRows :
    /\ steps < MaxOps
    /\ prev' = pcgData
    /\ last' = [op |-> "getPlaneRow", code |-> code, plane |-> plane, row |-> row,
                ret |-> getPlaneRow(pcgData, code, plane, row),
                retOthersChanged |-> getPlaneRow(OthersChanged(pcgData, code), code, plane, row)]
    /\ steps' = steps + 1
    /\ UNCHANGED <<pcgData, editBuffer, editorState, fresh, file, saved, loads, run, async>>

SetPlaneRowArgsOp ==
  \E code \in PlaneCodes, plane \in PlaneArgs, row \in PlaneRows, value \in PlaneValues :
    /\ steps < MaxOps
    /\ prev' = pcgData
    /\ pcgData' = setPlaneRow(pcgData, code, plane, row, value)
    /\ last' = [op |-> "setPlaneRow", code |-> code, plane |-> plane, row |-> row,
                value |-> value]
    /\ steps' = steps + 1
    /\ UNCHANGED <<editBuffer, editorState, fresh, file, saved, loads, run, async>>

NextPlane == BasFillOp \/ GetPlaneRowOp \/ SetPlaneRowArgsOp

SpecPlane == InitStore /\ [][NextPlane]_vars

(***************************************************************************)
(* C30: plane-row isolation.  For every code, row and integer plane,       *)
(* setPlaneRow changes at most one byte, a byte of character code & 0xFF,  *)
(* and getPlaneRow reads only from the 24 bytes of that character.         *)
(***************************************************************************)
\* the positions of character c whose byte differs between two stores
ChangedBytes(a, b, c) == {j \in 1..PCG_BYTES_PER_CHAR : a[c][j] # b[c][j]}

WriteIsolated ==
  last.op = "setPlaneRow" =>
    /\ \A c \in 0..(PCG_TOTAL_CHARS - 1) : c # last.code % 256 => pcgData[c] = prev[c]
    /\ Cardinality(ChangedBytes(pcgData, prev, last.code % 256)) <= 1

\* what was read does not depend on any other character, and is a byte
ReadIsolated ==
  last.op = "getPlaneRow" =>
    /\ last.ret = last.retOthersChanged
    /\ last.ret \in 0..255

C30_PlaneRowIsolation == WriteIsolated /\ ReadIsolated

\* setPlaneRow(65, 3, 0, 255) on the empty store set byte 0 of character 66
C30_NeighbourWritten ==
  /\ last.op = "setPlaneRow"
  /\ last.code = 65
  /\ last.plane = 3
  /\ last.row = 0
  /\ last.value = 255
  /\ pcgData[65] = prev[65]
  /\ pcgData[66][1] = 255
  /\ prev[66][1] = 0

\* getPlaneRow(65, -1, 15) returned the byte of row 7 of plane B of character 66
C30_NeighbourRead ==
  /\ last.op = "getPlaneRow"
  /\ last.code = 65
  /\ last.plane = -1
  /\ last.row = 15
  /\ last.ret = pcgData[66][8]
  /\ last.ret # last.retOthersChanged

\* getPlaneRow(-1, 3, 0) addresses character 255 and reads past the end of the buffer
C30_PastTheEnd ==
  /\ last.op = "getPlaneRow"
  /\ last.code = -1
  /\ last.plane = 3
  /\ last.ret = Undefined

\* with plane & 3 in 0..2 the access stays inside character code & 0xFF; with plane & 3 = 3
\* it goes to row (row & 7) of plane B of the next character, or past the end for code 255
C30_IsolationUpToPlaneTwo ==
  /\ last.op \in {"setPlaneRow", "getPlaneRow"} /\ last.plane % 4 # 3 =>
       WriteIsolated /\ ReadIsolated
  /\ last.op = "setPlaneRow" /\ last.plane % 4 = 3 =>
       \A c \in 0..(PCG_TOTAL_CHARS - 1) :
         /\ c # (last.code % 256) + 1 => pcgData[c] = prev[c]
         /\ c = (last.code % 256) + 1 =>
              /\ ChangedBytes(pcgData, prev, c) \subseteq {(last.row % 8) + 1}
              /\ pcgData[c][(last.row % 8) + 1] = last.value % 256
  /\ last.op = "getPlaneRow" /\ last.plane % 4 = 3 =>
       last.ret = IF last.code % 256 = 255 THEN Undefined
                  ELSE pcgData[(last.code % 256) + 1][(last.row % 8) + 1]

\* a write inside the character: setPlaneRow(-1, 6, 15, 257) sets row 7 of plane G of 255 to 1
C30_WitnessInside ==
  /\ last.op = "setPlaneRow"
  /\ last.code = -1
  /\ last.plane = 6
  /\ last.row = 15
  /\ last.value = 257
  /\ pcgData[255][24] = 1
  /\ prev[255][24] # 1

====
